---- MODULE Spec2Model ----
(***************************************************************************)
(* Self-healing infrastructure: the remediation trigger                    *)
(* (lambda/functions/trigger_remediation/main.py) and the multi-channel    *)
(* notifier (lambda/functions/notify/main.py).                             *)
(*                                                                         *)
(* The fleet (auto scaling group), the instance health service, the remote *)
(* command service and the notification transports are external            *)
(* collaborators: every call to one of them is one atomic step that either *)
(* returns or raises.  Each remediation invocation keeps, in effects[p],   *)
(* the ordered list of the collaborator calls it issued and of its calls   *)
(* of send_notification.                                                   *)
(*                                                                         *)
(* An alarm name is a sequence of tokens (its text is their concatenation);*)
(* the four routing patterns are tokens, so "pattern in name.lower()" is   *)
(* membership of the pattern among the lower-cased tokens.                 *)
(*                                                                         *)
(* An event is a dict (a function on the keys it holds); the message of a  *)
(* pub/sub record is a JSON text that json.loads turns into a value or     *)
(* rejects.  A message text is a sequence of words.  A handler that calls  *)
(* collaborators is cut into one action per call.                          *)
(***************************************************************************)
EXTENDS Integers, Sequences, FiniteSets, TLC

\* ------------------------------------------------------------------ bounds
MaxCapacity == 3
MaxNameLen == 2
MaxWords == 2
MaxRecords == 2
MaxInstances == 3
MaxInvocations == 4

\* ------------------------------------------------------------------ state
VARIABLES
    env,        \* the process environment read at import time
    asg,        \* the fleet, owned by the autoscaling collaborator
    ec2,        \* the status of each instance, owned by the health collaborator
    pc,         \* where each remediation invocation stands
    message,    \* the alarm (a dict) each invocation processes
    local,      \* each invocation's local variables
    effects,    \* each invocation's collaborator calls and notifications, in order
    notification,  \* the notifier: the canonical notification being fanned out
    npc,           \* the notifier: where send_notifications stands
    results,       \* the notifier: the result mapping built so far
    requests,      \* the notifier: the transport requests made, with their outcome
    event,         \* the notifier: the event notify_lambda_handler was invoked with
    response       \* the notifier: what notify_lambda_handler returned

remediationVars == <<asg, ec2, pc, message, local, effects>>

notifyVars == <<notification, npc, results, requests, event, response>>

vars == <<env, remediationVars, notifyVars>>

Invocations == {1, 2}

\* ------------------------------------------------------------------ values
Min(a, b) == IF a <= b THEN a ELSE b

\* Python dict.get(key, default)
DictGet(d, k, default) == IF k \in DOMAIN d THEN d[k] ELSE default

EmptyDict == [k \in {} |-> ""]

PatternTokens ==
    {"cpu-utilization-high", "memory-utilization-high",
     "disk-utilization-high", "unhealthy-targets"}

MixedCaseTokens ==
    {"CPU-Utilization-High", "Memory-Utilization-HIGH",
     "DISK-utilization-high", "Unhealthy-Targets"}

OtherTokens == {"test-"}

Tokens == PatternTokens \cup MixedCaseTokens \cup OtherTokens

\* str.lower(), token by token
LowerToken(t) ==
    CASE t = "CPU-Utilization-High" -> "cpu-utilization-high"
      [] t = "Memory-Utilization-HIGH" -> "memory-utilization-high"
      [] t = "DISK-utilization-high" -> "disk-utilization-high"
      [] t = "Unhealthy-Targets" -> "unhealthy-targets"
      [] t = "System" -> "system"
      [] t = "Service" -> "service"
      [] t = "Regular" -> "regular"
      [] t = "DOWN" -> "down"
      [] t = "Critical" -> "critical"
      [] t = "Problem" -> "problem"
      [] t = "Warning:" -> "warning:"
      [] t = "Successfully" -> "successfully"
      [] OTHER -> t

lower(name) == [i \in DOMAIN name |-> LowerToken(name[i])]

\* Python "pattern in text"
Contains(pattern, text) == \E i \in DOMAIN text : text[i] = pattern

\* A JSON value that is not a string, where a text is expected.
NotText == <<"<number>">>

IsText(v) == v # NotText

AlarmNames == UNION {[1..n -> Tokens] : n \in 0..MaxNameLen}

StateValues == {"ALARM", "OK", "INSUFFICIENT_DATA", "alarm"}

\* ------------------------------------------------------------------ effects log
Call(op, arg, result) ==
    [op |-> op, arg |-> arg, result |-> result, text |-> "", a |-> 0, b |-> 0]

\* The lookup get_asg_instances() makes, as told from the one handle_high_cpu makes.
GetCall(result) ==
    [Call("describe_auto_scaling_groups", 0, result) EXCEPT !.text = "get_asg_instances"]

\* The lookup handle_high_cpu makes, with the capacities its response holds
\* for a group that was found.
DescribeCall(result, fleet) ==
    IF result = "ok" /\ fleet.found
    THEN [Call("describe_auto_scaling_groups", 0, result) EXCEPT
             !.a = fleet.DesiredCapacity, !.b = fleet.MaxSize]
    ELSE Call("describe_auto_scaling_groups", 0, result)

\* terminate_instance_in_auto_scaling_group with its keyword argument
TerminateCall(instance_id, decrement, result) ==
    [Call("terminate_instance_in_auto_scaling_group", instance_id, result) EXCEPT
        !.text = IF decrement THEN "ShouldDecrementDesiredCapacity=True"
                 ELSE "ShouldDecrementDesiredCapacity=False"]

ApiOps ==
    {"describe_auto_scaling_groups", "set_desired_capacity", "send_command",
     "describe_instance_status", "terminate_instance_in_auto_scaling_group"}

send_notification_mutant_silent(e, text, a, b, delivery) == e

\* send_notification(message): never raises; publishes only when the topic is
\* configured, and swallows a publish error.
send_notification(e, text, a, b, delivery) ==
    Append(e, [op |-> "send_notification", arg |-> 0, result |-> delivery,
               text |-> text, a |-> a, b |-> b])

Deliveries ==
    IF env.SNS_TOPIC_ARN = "" THEN {"skipped"} ELSE {"published", "publish_error"}

CallsOf(p, op) == SelectSeq(effects[p], LAMBDA x : x.op = op)

Notifications(p) == CallsOf(p, "send_notification")

ApiCalls(p) == SelectSeq(effects[p], LAMBDA x : x.op \in ApiOps)

\* ------------------------------------------------------------------ router
Route_mutant_order(alarm_name) ==
    IF Contains("memory-utilization-high", lower(alarm_name)) THEN "handle_high_memory"
    ELSE IF Contains("cpu-utilization-high", lower(alarm_name)) THEN "handle_high_cpu"
    ELSE IF Contains("disk-utilization-high", lower(alarm_name)) THEN "handle_high_disk"
    ELSE IF Contains("unhealthy-targets", lower(alarm_name)) THEN "handle_unhealthy_targets"
    ELSE "unsupported"

Route_mutant_fallthrough(alarm_name) ==
    IF Contains("cpu-utilization-high", lower(alarm_name)) THEN "handle_high_cpu"
    ELSE IF Contains("memory-utilization-high", lower(alarm_name)) THEN "handle_high_memory"
    ELSE IF Contains("disk-utilization-high", lower(alarm_name)) THEN "handle_high_disk"
    ELSE "handle_unhealthy_targets"

Route(alarm_name) ==
    IF Contains("cpu-utilization-high", lower(alarm_name)) THEN "handle_high_cpu"
    ELSE IF Contains("memory-utilization-high", lower(alarm_name)) THEN "handle_high_memory"
    ELSE IF Contains("disk-utilization-high", lower(alarm_name)) THEN "handle_high_disk"
    ELSE IF Contains("unhealthy-targets", lower(alarm_name)) THEN "handle_unhealthy_targets"
    ELSE "unsupported"

IsFiring_mutant_caseless(new_state) == new_state \in {"ALARM", "alarm"}

IsFiring(new_state) == new_state = "ALARM"

\* alarm_name.lower() needs a string: the AttributeError leaves process_alarm.
process_alarm(p) ==
    /\ pc[p] = "process_alarm"
    /\ LET alarm_name == DictGet(message[p], "AlarmName", <<>>)
           new_state == DictGet(message[p], "NewStateValue", "")
           handler == Route(alarm_name)
       IN  IF ~IsFiring(new_state)
           THEN /\ pc' = [pc EXCEPT ![p] = "skipped"]
                /\ UNCHANGED <<local, effects>>
           ELSE IF ~IsText(alarm_name)
           THEN /\ pc' = [pc EXCEPT ![p] = "raised"]
                /\ local' = [local EXCEPT ![p].exception = "AttributeError"]
                /\ UNCHANGED effects
           ELSE IF handler = "unsupported"
           THEN /\ \E d \in Deliveries :
                      effects' = [effects EXCEPT ![p] =
                          send_notification(@, "triggered but no remediation configured", 0, 0, d)]
                /\ pc' = [pc EXCEPT ![p] = "completed"]
                /\ UNCHANGED local
           ELSE /\ pc' = [pc EXCEPT ![p] = handler]
                /\ local' = [local EXCEPT ![p].handlers = Append(@, handler)]
                /\ UNCHANGED effects
    /\ UNCHANGED <<env, asg, ec2, message, notifyVars>>

\* ------------------------------------------------------------------ ScaleOut
\* The decision of handle_high_cpu on the snapshot it read.
ScaleOutPlan_mutant_uncapped(current_capacity, max_capacity) ==
    [scale |-> TRUE, new_capacity |-> current_capacity + 1]

ScaleOutPlan_mutant_guard(current_capacity, max_capacity) ==
    IF current_capacity <= max_capacity
    THEN [scale |-> TRUE, new_capacity |-> Min(current_capacity + 1, max_capacity)]
    ELSE [scale |-> FALSE, new_capacity |-> current_capacity]

ScaleOutPlan_mutant_step(current_capacity, max_capacity) ==
    IF current_capacity < max_capacity
    THEN [scale |-> TRUE, new_capacity |-> Min(current_capacity + 2, max_capacity)]
    ELSE [scale |-> FALSE, new_capacity |-> current_capacity]

ScaleOutPlan_mutant_reassert(current_capacity, max_capacity) ==
    [scale |-> TRUE, new_capacity |-> Min(current_capacity + 1, max_capacity)]

ScaleOutPlan(current_capacity, max_capacity) ==
    IF current_capacity < max_capacity
    THEN [scale |-> TRUE, new_capacity |-> Min(current_capacity + 1, max_capacity)]
    ELSE [scale |-> FALSE, new_capacity |-> current_capacity]

\* The fleet's desired capacity after set_desired_capacity(DesiredCapacity=n):
\* an absolute write, whatever the fleet holds by then.
set_desired_capacity_mutant_delta(held, new_capacity) == held + 1

set_desired_capacity(held, new_capacity) == new_capacity

\* describe_auto_scaling_groups, then the decision (lines 85-101, 111-119)
handle_high_cpu(p) ==
    /\ pc[p] = "handle_high_cpu"
    /\ \E result \in {"ok", "raise"}, d \in Deliveries :
         LET called == Append(effects[p], DescribeCall(result, asg))
             plan == ScaleOutPlan(asg.DesiredCapacity, asg.MaxSize)
         IN  IF result = "raise"
             THEN /\ effects' = [effects EXCEPT ![p] =
                         send_notification(called, "Error in high CPU remediation", 0, 0, d)]
                  /\ local' = [local EXCEPT ![p].described = "raised"]
                  /\ pc' = [pc EXCEPT ![p] = "completed"]
             ELSE IF ~asg.found
             THEN /\ effects' = [effects EXCEPT ![p] = called]
                  /\ local' = [local EXCEPT ![p].described = "not_found"]
                  /\ pc' = [pc EXCEPT ![p] = "completed"]
             ELSE /\ local' = [local EXCEPT ![p].described = "found",
                                            ![p].current_capacity = asg.DesiredCapacity,
                                            ![p].max_capacity = asg.MaxSize,
                                            ![p].new_capacity = plan.new_capacity]
                  /\ IF plan.scale
                     THEN /\ effects' = [effects EXCEPT ![p] = called]
                          /\ pc' = [pc EXCEPT ![p] = "set_desired_capacity"]
                     ELSE /\ effects' = [effects EXCEPT ![p] =
                                 send_notification(called, "already at maximum capacity", 0, 0, d)]
                          /\ pc' = [pc EXCEPT ![p] = "completed"]
    /\ UNCHANGED <<env, asg, ec2, message, notifyVars>>

handle_high_cpu_set_mutant_report_first(p) ==
    /\ pc[p] = "set_desired_capacity"
    /\ \E result \in {"ok", "raise"}, d \in Deliveries :
         LET reported == send_notification(effects[p], "Scaled up",
                             local[p].current_capacity, local[p].new_capacity, d)
             called == Append(reported,
                          Call("set_desired_capacity", local[p].new_capacity, result))
         IN  IF result = "ok"
             THEN /\ asg' = [asg EXCEPT !.DesiredCapacity =
                         set_desired_capacity(@, local[p].new_capacity)]
                  /\ effects' = [effects EXCEPT ![p] = called]
             ELSE /\ asg' = asg
                  /\ effects' = [effects EXCEPT ![p] =
                         send_notification(called, "Error in high CPU remediation", 0, 0, d)]
    /\ pc' = [pc EXCEPT ![p] = "completed"]
    /\ UNCHANGED <<env, ec2, message, local, notifyVars>>

\* set_desired_capacity, then the report (lines 103-110, 117-119)
handle_high_cpu_set(p) ==
    /\ pc[p] = "set_desired_capacity"
    /\ \E result \in {"ok", "raise"}, d \in Deliveries :
         LET called == Append(effects[p],
                          Call("set_desired_capacity", local[p].new_capacity, result))
         IN  IF result = "ok"
             THEN /\ asg' = [asg EXCEPT !.DesiredCapacity =
                         set_desired_capacity(@, local[p].new_capacity)]
                  /\ effects' = [effects EXCEPT ![p] =
                         send_notification(called, "Scaled up",
                             local[p].current_capacity, local[p].new_capacity, d)]
             ELSE /\ asg' = asg
                  /\ effects' = [effects EXCEPT ![p] =
                         send_notification(called, "Error in high CPU remediation", 0, 0, d)]
    /\ pc' = [pc EXCEPT ![p] = "completed"]
    /\ UNCHANGED <<env, ec2, message, local, notifyVars>>

\* ------------------------------------------------------------------ fleet members
\* get_asg_instances(): the InService members in source order; [] when the
\* lookup raises or the group is not found.
InServiceIds_mutant_all(instances) ==
    [i \in DOMAIN instances |-> instances[i].InstanceId]

InServiceIds(instances) ==
    LET kept == SelectSeq(instances, LAMBDA m : m.LifecycleState = "InService")
    IN  [i \in DOMAIN kept |-> kept[i].InstanceId]

get_asg_instances_mutant_ignore_found(result, fleet) ==
    IF result = "raise" THEN <<>> ELSE InServiceIds(fleet.Instances)

get_asg_instances(result, fleet) ==
    IF result = "raise" THEN <<>>
    ELSE IF ~fleet.found THEN <<>>
    ELSE InServiceIds(fleet.Instances)

\* One more member done: the next one, or the end of the loop.
LoopDone(p) == local[p].i = Len(local[p].instances)

\* ------------------------------------------------------------------ ClearCache
handle_high_memory(p) ==
    /\ pc[p] = "handle_high_memory"
    /\ \E result \in {"ok", "raise"} :
         LET instances == get_asg_instances(result, asg)
         IN  /\ effects' = [effects EXCEPT ![p] =
                    Append(@, GetCall(result))]
             /\ local' = [local EXCEPT ![p].instances = instances, ![p].i = 1]
             /\ pc' = [pc EXCEPT ![p] =
                    IF instances = <<>> THEN "completed" ELSE "memory_send_command"]
    /\ UNCHANGED <<env, asg, ec2, message, notifyVars>>

handle_high_memory_command_mutant_abort(p) ==
    /\ pc[p] = "memory_send_command"
    /\ \E result \in {"ok", "raise"}, d \in Deliveries :
         LET sent == Append(effects[p],
                        Call("send_command", local[p].instances[local[p].i], result))
         IN  IF LoopDone(p) \/ result = "raise"
             THEN /\ effects' = [effects EXCEPT ![p] =
                         send_notification(sent, "Cleared memory caches",
                             Len(local[p].instances), 0, d)]
                  /\ pc' = [pc EXCEPT ![p] = "completed"]
                  /\ UNCHANGED local
             ELSE /\ effects' = [effects EXCEPT ![p] = sent]
                  /\ local' = [local EXCEPT ![p].i = @ + 1]
                  /\ UNCHANGED pc
    /\ UNCHANGED <<env, asg, ec2, message, notifyVars>>

handle_high_memory_command(p) ==
    /\ pc[p] = "memory_send_command"
    /\ \E result \in {"ok", "raise"}, d \in Deliveries :
         LET sent == Append(effects[p],
                        Call("send_command", local[p].instances[local[p].i], result))
         IN  IF LoopDone(p)
             THEN /\ effects' = [effects EXCEPT ![p] =
                         send_notification(sent, "Cleared memory caches",
                             Len(local[p].instances), 0, d)]
                  /\ pc' = [pc EXCEPT ![p] = "completed"]
                  /\ UNCHANGED local
             ELSE /\ effects' = [effects EXCEPT ![p] = sent]
                  /\ local' = [local EXCEPT ![p].i = @ + 1]
                  /\ UNCHANGED pc
    /\ UNCHANGED <<env, asg, ec2, message, notifyVars>>

\* ------------------------------------------------------------------ CleanDisk
handle_high_disk(p) ==
    /\ pc[p] = "handle_high_disk"
    /\ \E result \in {"ok", "raise"}, d \in Deliveries :
         LET instances == get_asg_instances(result, asg)
             called == Append(effects[p], GetCall(result))
         IN  /\ local' = [local EXCEPT ![p].instances = instances, ![p].i = 1]
             /\ IF instances = <<>>
                THEN /\ effects' = [effects EXCEPT ![p] =
                            send_notification(called, "Cleaned disk space", 0, 0, d)]
                     /\ pc' = [pc EXCEPT ![p] = "completed"]
                ELSE /\ effects' = [effects EXCEPT ![p] = called]
                     /\ pc' = [pc EXCEPT ![p] = "disk_send_command"]
    /\ UNCHANGED <<env, asg, ec2, message, notifyVars>>

handle_high_disk_command(p) ==
    /\ pc[p] = "disk_send_command"
    /\ \E result \in {"ok", "raise"}, d \in Deliveries :
         LET sent == Append(effects[p],
                        Call("send_command", local[p].instances[local[p].i], result))
         IN  IF LoopDone(p)
             THEN /\ effects' = [effects EXCEPT ![p] =
                         send_notification(sent, "Cleaned disk space",
                             Len(local[p].instances), 0, d)]
                  /\ pc' = [pc EXCEPT ![p] = "completed"]
                  /\ UNCHANGED local
             ELSE /\ effects' = [effects EXCEPT ![p] = sent]
                  /\ local' = [local EXCEPT ![p].i = @ + 1]
                  /\ UNCHANGED pc
    /\ UNCHANGED <<env, asg, ec2, message, notifyVars>>

\* ------------------------------------------------------------------ CullUnhealthy
Unhealthy_mutant_instance_only(status) ==
    status.reported /\ status.InstanceStatus # "ok"

Unhealthy(status) ==
    status.reported /\ (status.InstanceStatus # "ok" \/ status.SystemStatus # "ok")

\* terminate_instance_in_auto_scaling_group(InstanceId, ShouldDecrementDesiredCapacity)
Terminated(fleet, id, decrement) ==
    [fleet EXCEPT
        !.Instances = [i \in DOMAIN @ |->
            IF @[i].InstanceId = id
            THEN [@[i] EXCEPT !.LifecycleState = "Terminating"] ELSE @[i]],
        !.DesiredCapacity = IF decrement /\ @ > 0 THEN @ - 1 ELSE @]

ShouldDecrementDesiredCapacity == FALSE

handle_unhealthy_targets(p) ==
    /\ pc[p] = "handle_unhealthy_targets"
    /\ \E result \in {"ok", "raise"} :
         LET instances == get_asg_instances(result, asg)
         IN  /\ effects' = [effects EXCEPT ![p] =
                    Append(@, GetCall(result))]
             /\ local' = [local EXCEPT ![p].instances = instances, ![p].i = 1]
             /\ pc' = [pc EXCEPT ![p] =
                    IF instances = <<>> THEN "completed" ELSE "describe_instance_status"]
    /\ UNCHANGED <<env, asg, ec2, message, notifyVars>>

handle_unhealthy_targets_status_mutant_isolated(p) ==
    /\ pc[p] = "describe_instance_status"
    /\ \E result \in {"ok", "raise"} :
         LET instance_id == local[p].instances[local[p].i]
             called == Append(effects[p], Call("describe_instance_status", instance_id, result))
         IN  /\ effects' = [effects EXCEPT ![p] = called]
             /\ IF result = "ok" /\ Unhealthy(ec2[instance_id])
                THEN /\ pc' = [pc EXCEPT ![p] = "terminate_instance"]
                     /\ UNCHANGED local
                ELSE IF LoopDone(p)
                THEN /\ pc' = [pc EXCEPT ![p] = "completed"]
                     /\ UNCHANGED local
                ELSE /\ local' = [local EXCEPT ![p].i = @ + 1]
                     /\ UNCHANGED pc
    /\ UNCHANGED <<env, asg, ec2, message, notifyVars>>

\* describe_instance_status for the next member; there is no try inside the
\* loop, so a failure ends the loop in the function's except clause.
handle_unhealthy_targets_status(p) ==
    /\ pc[p] = "describe_instance_status"
    /\ \E result \in {"ok", "raise"}, d \in Deliveries :
         LET instance_id == local[p].instances[local[p].i]
             called == Append(effects[p], Call("describe_instance_status", instance_id, result))
         IN  IF result = "raise"
             THEN /\ effects' = [effects EXCEPT ![p] =
                         send_notification(called, "Error in unhealthy target remediation", 0, 0, d)]
                  /\ pc' = [pc EXCEPT ![p] = "completed"]
                  /\ UNCHANGED local
             ELSE /\ effects' = [effects EXCEPT ![p] = called]
                  /\ IF Unhealthy(ec2[instance_id])
                     THEN /\ pc' = [pc EXCEPT ![p] = "terminate_instance"]
                          /\ UNCHANGED local
                     ELSE IF LoopDone(p)
                     THEN /\ pc' = [pc EXCEPT ![p] = "completed"]
                          /\ UNCHANGED local
                     ELSE /\ local' = [local EXCEPT ![p].i = @ + 1]
                          /\ UNCHANGED pc
    /\ UNCHANGED <<env, asg, ec2, message, notifyVars>>

handle_unhealthy_targets_terminate(p) ==
    /\ pc[p] = "terminate_instance"
    /\ \E result \in {"ok", "raise"}, d \in Deliveries :
         LET instance_id == local[p].instances[local[p].i]
             called == Append(effects[p],
                 TerminateCall(instance_id, ShouldDecrementDesiredCapacity, result))
         IN  IF result = "raise"
             THEN /\ effects' = [effects EXCEPT ![p] =
                         send_notification(called, "Error in unhealthy target remediation", 0, 0, d)]
                  /\ pc' = [pc EXCEPT ![p] = "completed"]
                  /\ UNCHANGED <<asg, local>>
             ELSE /\ asg' = Terminated(asg, instance_id, ShouldDecrementDesiredCapacity)
                  /\ effects' = [effects EXCEPT ![p] =
                         send_notification(called, "Terminated unhealthy instance", instance_id, 0, d)]
                  /\ IF LoopDone(p)
                     THEN /\ pc' = [pc EXCEPT ![p] = "completed"]
                          /\ UNCHANGED local
                     ELSE /\ local' = [local EXCEPT ![p].i = @ + 1]
                          /\ pc' = [pc EXCEPT ![p] = "describe_instance_status"]
    /\ UNCHANGED <<env, ec2, message, notifyVars>>

\* ================================================================== notifier
\* A severity is a string, or another JSON value a direct payload supplied:
\* a number (hashable, no .upper()) or a list (not even hashable).
SEVERITY_LEVELS == {"critical", "error", "warning", "info", "success"}

NonStrings == {"<number>", "<list>"}

Severities == SEVERITY_LEVELS \cup {"urgent"} \cup NonStrings

IsString(v) == v \notin NonStrings

Hashable(v) == v # "<list>"

Channels == <<"slack", "discord", "teams", "pagerduty", "sns", "email">>

ChannelSet == {Channels[i] : i \in DOMAIN Channels}

Success == [status |-> "success", detail |-> "response"]

Error(text) == [status |-> "error", detail |-> text]

Raised == [status |-> "raised", detail |-> "exception"]

NoResults == [c \in {} |-> Success]

NoRequests == [c \in {} |-> "ok"]

\* Whether the channel's function gets as far as its transport request:
\* SEVERITY_LEVELS.get(severity, ...) needs a hashable severity, the payload
\* (but the paging one) needs severity.upper(), the paging channel returns
\* early unless the severity is critical or error.
Reaches(channel, n) ==
    CASE channel \in {"slack", "discord", "teams", "email"} ->
             Hashable(n.severity) /\ IsString(n.severity)
      [] channel = "pagerduty" ->
             Hashable(n.severity) /\ n.severity \in {"critical", "error"}
      [] channel = "sns" -> IsString(n.severity)

send_slack_notification(n, outcome) ==
    IF Reaches("slack", n) /\ outcome = "ok" THEN Success
    ELSE Error("Error sending Slack notification")

send_discord_notification(n, outcome) ==
    IF Reaches("discord", n) /\ outcome = "ok" THEN Success
    ELSE Error("Error sending Discord notification")

send_teams_notification(n, outcome) ==
    IF Reaches("teams", n) /\ outcome = "ok" THEN Success
    ELSE Error("Error sending Teams notification")

send_pagerduty_notification(n, outcome) ==
    IF ~Hashable(n.severity) THEN Error("Error sending PagerDuty notification")
    ELSE IF n.severity \notin {"critical", "error"}
    THEN [status |-> "skipped", detail |-> "non-critical event"]
    ELSE IF outcome = "ok" THEN Success
    ELSE Error("Error sending PagerDuty notification")

send_sns_notification_mutant_uncaught(n, outcome) ==
    IF Reaches("sns", n) /\ outcome = "ok" THEN Success ELSE Raised

send_sns_notification(n, outcome) ==
    IF Reaches("sns", n) /\ outcome = "ok" THEN Success
    ELSE Error("Error sending SNS notification")

send_email_notification(n, outcome) ==
    IF Reaches("email", n) /\ outcome = "ok" THEN Success
    ELSE Error("Error sending email notification")

Send(channel, n, outcome) ==
    CASE channel = "slack" -> send_slack_notification(n, outcome)
      [] channel = "discord" -> send_discord_notification(n, outcome)
      [] channel = "teams" -> send_teams_notification(n, outcome)
      [] channel = "pagerduty" -> send_pagerduty_notification(n, outcome)
      [] channel = "sns" -> send_sns_notification(n, outcome)
      [] channel = "email" -> send_email_notification(n, outcome)

\* The "if <configuration>:" in front of each channel of send_notifications.
Configured_mutant_either_key(channel, e) ==
    CASE channel = "slack" -> e.SLACK_WEBHOOK_URL # ""
      [] channel = "discord" -> e.DISCORD_WEBHOOK_URL # ""
      [] channel = "teams" -> e.TEAMS_WEBHOOK_URL # ""
      [] channel = "pagerduty" -> e.PAGERDUTY_API_KEY # "" \/ e.PAGERDUTY_ROUTING_KEY # ""
      [] channel = "sns" -> e.SNS_TOPIC_ARN # ""
      [] channel = "email" -> e.DEFAULT_EMAIL # ""

Configured(channel, e) ==
    CASE channel = "slack" -> e.SLACK_WEBHOOK_URL # ""
      [] channel = "discord" -> e.DISCORD_WEBHOOK_URL # ""
      [] channel = "teams" -> e.TEAMS_WEBHOOK_URL # ""
      [] channel = "pagerduty" -> e.PAGERDUTY_API_KEY # "" /\ e.PAGERDUTY_ROUTING_KEY # ""
      [] channel = "sns" -> e.SNS_TOPIC_ARN # ""
      [] channel = "email" -> e.DEFAULT_EMAIL # ""

\* Where send_notifications goes after a channel: on to the next statement,
\* whatever the channel returned.
Following(channel) ==
    LET k == CHOOSE i \in DOMAIN Channels : Channels[i] = channel
    IN  IF k = Len(Channels) THEN "returned" ELSE Channels[k + 1]

After_mutant_stop_on_error(channel, result) ==
    IF result.status = "error" THEN "returned" ELSE Following(channel)

After(channel, result) == Following(channel)

\* One statement of send_notifications: the channel's function is called when
\* the channel is configured, and its return value stored; an exception that
\* left the channel's function would leave send_notifications too.
Attempt(channel) ==
    /\ IF ~Configured(channel, env)
       THEN /\ npc' = Following(channel)
            /\ UNCHANGED <<results, requests>>
       ELSE \E outcome \in {"ok", "fail"} :
              LET result == Send(channel, notification, outcome)
              IN  /\ requests' = IF Reaches(channel, notification)
                                 THEN requests @@ (channel :> outcome)
                                 ELSE requests
                  /\ IF result.status = "raised"
                     THEN npc' = "raised" /\ results' = results
                     ELSE /\ results' = results @@ (channel :> result)
                          /\ npc' = After(channel, result)
    /\ UNCHANGED <<env, notification, event, response, remediationVars>>

send_notifications_slack ==
    /\ npc = "slack"
    /\ Attempt("slack")

send_notifications_discord ==
    /\ npc = "discord"
    /\ Attempt("discord")

send_notifications_teams ==
    /\ npc = "teams"
    /\ Attempt("teams")

send_notifications_pagerduty ==
    /\ npc = "pagerduty"
    /\ Attempt("pagerduty")

send_notifications_sns ==
    /\ npc = "sns"
    /\ Attempt("sns")

send_notifications_email ==
    /\ npc = "email"
    /\ Attempt("email")

\* ------------------------------------------------------------------ notifier: texts
\* A message text is a sequence of words (the string is the words joined by
\* blanks).  No keyword holds a blank, so "keyword in text" is "keyword is a
\* part of one of the words"; Parts gives the keywords a lower-cased word
\* holds besides itself.
Words ==
    {"System", "is", "down", "DOWN", "Critical", "failure", "Service", "failed",
     "error", "Problem", "issue", "Warning:", "warn", "degraded", "Successfully",
     "success", "resolved", "recovered", "healthy", "Regular", "message",
     "download"}

Texts == UNION {[1..n -> Words] : n \in 0..MaxWords}

Parts(w) ==
    CASE w = "warning:" -> {"warning:", "warning", "warn"}
      [] w = "successfully" -> {"successfully", "success"}
      [] w = "download" -> {"download", "down"}
      [] OTHER -> {w}

\* Python "word in text" for a word without blanks
In(word, text) == \E i \in DOMAIN text : word \in Parts(text[i])

determine_severity_from_message_mutant_success_first(msg) ==
    LET message_lower == lower(msg)
    IN  IF \E word \in {"success", "resolved", "recovered", "healthy"} :
               In(word, message_lower) THEN "success"
        ELSE IF \E word \in {"critical", "down", "failed", "failure"} :
               In(word, message_lower) THEN "critical"
        ELSE IF \E word \in {"error", "problem", "issue"} :
               In(word, message_lower) THEN "error"
        ELSE IF \E word \in {"warning", "warn", "degraded"} :
               In(word, message_lower) THEN "warning"
        ELSE "info"

determine_severity_from_message(msg) ==
    LET message_lower == lower(msg)
    IN  IF \E word \in {"critical", "down", "failed", "failure"} :
               In(word, message_lower) THEN "critical"
        ELSE IF \E word \in {"error", "problem", "issue"} :
               In(word, message_lower) THEN "error"
        ELSE IF \E word \in {"warning", "warn", "degraded"} :
               In(word, message_lower) THEN "warning"
        ELSE IF \E word \in {"success", "resolved", "recovered", "healthy"} :
               In(word, message_lower) THEN "success"
        ELSE "info"

\* ------------------------------------------------------------------ notifier: normalisation
\* What a function returns: its value, or the exception it raised.
Ok(v) == [raised |-> "", value |-> v]

Raise(exception) == [raised |-> exception, value |-> EmptyDict]

\* dict.update(other)
Update(d, other) == [k \in DOMAIN d |-> IF k \in DOMAIN other THEN other[k] ELSE d[k]]

\* The text of a record's Sns.Message: the JSON encoding of an object, of an
\* array, or no JSON at all.  json.loads gives the value back, or raises.
JsonObject(d) == [text |-> "object", object |-> d]

JsonArray == [text |-> "array", object |-> EmptyDict]

Malformed == [text |-> "malformed", object |-> EmptyDict]

json_loads_mutant_lenient(t) ==
    CASE t.text = "object" -> Ok([type |-> "dict", object |-> t.object])
      [] t.text = "array" -> Ok([type |-> "list", object |-> EmptyDict])
      [] OTHER -> Ok([type |-> "dict", object |-> EmptyDict])

json_loads(t) ==
    CASE t.text = "object" -> Ok([type |-> "dict", object |-> t.object])
      [] t.text = "array" -> Ok([type |-> "list", object |-> EmptyDict])
      [] OTHER -> Raise("JSONDecodeError")

\* message.get(...) needs a dict, message.lower() a string.
parse_sns_message(msg) ==
    IF msg.type # "dict" THEN Raise("AttributeError")
    ELSE LET text == DictGet(msg.object, "Message", <<>>)
         IN  IF ~IsText(text) THEN Raise("AttributeError")
             ELSE Ok([title |-> DictGet(msg.object, "Subject", <<"SNS", "Notification">>),
                      message |-> text,
                      severity |-> determine_severity_from_message(text),
                      source |-> "sns",
                      metadata |-> msg.object])

parse_cloudwatch_alarm_mutant_not_ok(alarm) ==
    LET alarm_name == DictGet(alarm, "AlarmName", <<"Unknown", "Alarm">>)
        new_state == DictGet(alarm, "NewStateValue", "UNKNOWN")
        reason == DictGet(alarm, "NewStateReason", <<>>)
        severity == IF new_state # "OK" THEN "critical" ELSE "success"
    IN  [title |-> <<"CloudWatch", "Alarm:">> \o alarm_name,
         message |-> <<"State:", new_state, "\n", "Reason:">> \o reason,
         severity |-> severity,
         source |-> "cloudwatch",
         metadata |-> alarm]

\* The line break of the message is a word of its own.
parse_cloudwatch_alarm(alarm) ==
    LET alarm_name == DictGet(alarm, "AlarmName", <<"Unknown", "Alarm">>)
        new_state == DictGet(alarm, "NewStateValue", "UNKNOWN")
        reason == DictGet(alarm, "NewStateReason", <<>>)
        severity == IF new_state = "ALARM" THEN "critical" ELSE "success"
    IN  [title |-> <<"CloudWatch", "Alarm:">> \o alarm_name,
         message |-> <<"State:", new_state, "\n", "Reason:">> \o reason,
         severity |-> severity,
         source |-> "cloudwatch",
         metadata |-> alarm]

\* The notification parse_notification starts from (its timestamp, read from
\* the clock, is left out).
DefaultNotification ==
    [title |-> <<>>, message |-> <<>>, severity |-> "info", source |-> "lambda",
     metadata |-> EmptyDict]

\* The loop over event['Records']: the records left, the notification so far.
RECURSIVE ParseRecords(_, _)
ParseRecords(records, n) ==
    IF records = <<>> THEN Ok(n)
    ELSE LET record == Head(records)
         IN  IF DictGet(record, "EventSource", "None") # "aws:sns"
             THEN ParseRecords(Tail(records), n)
             ELSE IF "Sns" \notin DOMAIN record THEN Raise("KeyError")
             ELSE LET sns_message == json_loads(record.Sns.Message)
                      parsed == parse_sns_message(sns_message.value)
                  IN  IF sns_message.raised # "" THEN sns_message
                      ELSE IF parsed.raised # "" THEN parsed
                      ELSE ParseRecords(Tail(records), Update(n, parsed.value))

parse_notification_mutant_fallthrough(ev) ==
    IF /\ "Records" \in DOMAIN ev
       /\ \E k \in DOMAIN ev.Records :
              DictGet(ev.Records[k], "EventSource", "None") = "aws:sns"
    THEN ParseRecords(ev.Records, DefaultNotification)
    ELSE IF "message" \in DOMAIN ev
    THEN Ok([title |-> DictGet(ev, "title", <<"PROJECT_NAME", "Notification">>),
             message |-> ev.message,
             severity |-> DictGet(ev, "severity", "info"),
             source |-> DictGet(ev, "source", "direct"),
             metadata |-> DictGet(ev, "metadata", EmptyDict)])
    ELSE IF "AlarmName" \in DOMAIN ev
    THEN Ok(Update(DefaultNotification, parse_cloudwatch_alarm(ev)))
    ELSE Ok(DefaultNotification)

parse_notification(ev) ==
    IF "Records" \in DOMAIN ev THEN ParseRecords(ev.Records, DefaultNotification)
    ELSE IF "message" \in DOMAIN ev
    THEN Ok([title |-> DictGet(ev, "title", <<"PROJECT_NAME", "Notification">>),
             message |-> ev.message,
             severity |-> DictGet(ev, "severity", "info"),
             source |-> DictGet(ev, "source", "direct"),
             metadata |-> DictGet(ev, "metadata", EmptyDict)])
    ELSE IF "AlarmName" \in DOMAIN ev
    THEN Ok(Update(DefaultNotification, parse_cloudwatch_alarm(ev)))
    ELSE Ok(DefaultNotification)

\* notify_lambda_handler, first statement of its try block: normalisation.  An
\* exception goes to the except clause, which returns status 500.
notify_lambda_handler ==
    /\ npc = "lambda_handler"
    /\ LET parsed == parse_notification(event)
       IN  IF parsed.raised # ""
           THEN /\ response' = [statusCode |-> 500, body |-> <<"Error:", parsed.raised>>,
                                results |-> NoResults]
                /\ npc' = "done"
                /\ UNCHANGED notification
           ELSE /\ notification' = parsed.value
                /\ npc' = Channels[1]
                /\ UNCHANGED response
    /\ UNCHANGED <<env, results, requests, event, remediationVars>>

notify_lambda_handler_return_mutant_fail_on_error ==
    /\ npc \in {"returned", "raised"}
    /\ response' = IF npc = "raised" \/ \E c \in DOMAIN results : results[c].status = "error"
                   THEN [statusCode |-> 500, body |-> <<"Error:", "exception">>,
                         results |-> NoResults]
                   ELSE [statusCode |-> 200, body |-> <<"Notifications sent successfully">>,
                         results |-> results]
    /\ npc' = "done"
    /\ UNCHANGED <<env, notification, results, requests, event, remediationVars>>

\* notify_lambda_handler, after send_notifications: status 200 with the results; an
\* exception out of send_notifications would go to the except clause too.
notify_lambda_handler_return ==
    /\ npc \in {"returned", "raised"}
    /\ response' = IF npc = "raised"
                   THEN [statusCode |-> 500, body |-> <<"Error:", "exception">>,
                         results |-> NoResults]
                   ELSE [statusCode |-> 200, body |-> <<"Notifications sent successfully">>,
                         results |-> results]
    /\ npc' = "done"
    /\ UNCHANGED <<env, notification, results, requests, event, remediationVars>>

\* ------------------------------------------------------------------ remediation: handler
NextSnsRecord_mutant_any_source(records, after) ==
    LET later == {k \in DOMAIN records : k > after}
    IN  IF later = {} THEN 0 ELSE CHOOSE k \in later : \A j \in later : k <= j

\* The position of the next pub/sub record of event['Records'], 0 when none is left.
NextSnsRecord(records, after) ==
    LET later == {k \in DOMAIN records :
                     k > after /\ DictGet(records[k], "EventSource", "None") = "aws:sns"}
    IN  IF later = {} THEN 0 ELSE CHOOSE k \in later : \A j \in later : k <= j

\* lambda_handler of the remediation trigger: the loop over the records, up to
\* the call of process_alarm for the next pub/sub record, or to the return.
\* record['Sns'], json.loads, message.get (process_alarm's first line, for a
\* message that is no dict) and whatever process_alarm raised end in the
\* except clause: one notification, status 500 with the error's text, and the
\* records left are dropped.
remediation_lambda_handler(p) ==
    /\ \/ pc[p] = "lambda_handler"
       \/ pc[p] \in {"completed", "skipped", "raised"} /\ local[p].record > 0
    /\ LET records == DictGet(local[p].event, "Records", <<>>)
           k == NextSnsRecord(records, local[p].record)
           loaded == IF "Sns" \notin DOMAIN records[k] THEN Raise("KeyError")
                     ELSE json_loads(records[k].Sns.Message)
           e == IF pc[p] = "raised" THEN local[p].exception
                ELSE IF k = 0 THEN ""
                ELSE IF loaded.raised # "" THEN loaded.raised
                ELSE IF loaded.value.type # "dict" THEN "AttributeError"
                ELSE ""
       IN  IF e # ""
           THEN \E d \in Deliveries :
                  /\ effects' = [effects EXCEPT ![p] =
                         send_notification(@, "Error in remediation Lambda", 0, 0, d)]
                  /\ local' = [local EXCEPT ![p].statusCode = 500,
                                            ![p].body = <<"Error:", e>>,
                                            ![p].exception = e,
                                            ![p].record = IF pc[p] = "raised" THEN @ ELSE k]
                  /\ pc' = [pc EXCEPT ![p] = "returned"]
                  /\ UNCHANGED message
           ELSE IF k = 0
           THEN /\ local' = [local EXCEPT ![p].statusCode = 200,
                                          ![p].body = <<"Remediation triggered successfully">>]
                /\ pc' = [pc EXCEPT ![p] = "returned"]
                /\ UNCHANGED <<message, effects>>
           ELSE /\ message' = [message EXCEPT ![p] = loaded.value.object]
                /\ local' = [local EXCEPT ![p].record = k]
                /\ pc' = [pc EXCEPT ![p] = "process_alarm"]
                /\ UNCHANGED effects
    /\ UNCHANGED <<env, asg, ec2, notifyVars>>

\* ------------------------------------------------------------------ initial states
NoLocals ==
    [handlers |-> <<>>, described |-> "no",
     current_capacity |-> 0, max_capacity |-> 0, new_capacity |-> 0,
     instances |-> <<>>, i |-> 0,
     event |-> EmptyDict, record |-> 0, exception |-> "",
     statusCode |-> 0, body |-> <<>>]

RemediationEnvs == {[SNS_TOPIC_ARN |-> t] : t \in {"", "arn:aws:sns:topic"}}

Member(id, state) == [InstanceId |-> id, LifecycleState |-> state]

Status(reported, instance_status, system_status) ==
    [reported |-> reported, InstanceStatus |-> instance_status,
     SystemStatus |-> system_status]

\* Fleets of every capacity up to MaxCapacity, their members left out.
Fleets ==
    {[found |-> f, DesiredCapacity |-> c, MaxSize |-> m, Instances |-> <<>>] :
        f \in BOOLEAN, c \in 0..MaxCapacity, m \in 0..MaxCapacity}

NoStatuses == [id \in {} |-> Status(FALSE, "ok", "ok")]

\* A few fleets for the router: absent or present, below or at the maximum,
\* without members or with three of them, the second not in service.
RouterFleets ==
    {[found |-> f, DesiredCapacity |-> c, MaxSize |-> 2, Instances |-> m] :
        f \in BOOLEAN, c \in {1, 2},
        m \in {<<>>, <<Member(1, "InService"), Member(2, "Pending"),
                       Member(3, "InService")>>}}

RouterStatuses ==
    {[id \in 1..3 |-> Status(TRUE, "ok", "ok")],
     [id \in 1..3 |-> IF id = 1 THEN Status(TRUE, "impaired", "ok")
                      ELSE Status(TRUE, "ok", "ok")],
     [id \in 1..3 |-> IF id = 3 THEN Status(TRUE, "ok", "impaired")
                      ELSE Status(FALSE, "ok", "ok")]}

\* The autoscaling service keeps desired capacity within the group's size limits.
ValidFleet(f) == f.DesiredCapacity <= f.MaxSize

Alarms ==
    {[AlarmName |-> n, NewStateValue |-> s] : n \in AlarmNames, s \in StateValues}
    \cup {[AlarmName |-> n] : n \in AlarmNames}
    \cup {[NewStateValue |-> s] : s \in StateValues}
    \cup {EmptyDict}

NoNotification ==
    [title |-> <<>>, message |-> <<>>, severity |-> "info", source |-> "lambda",
     metadata |-> EmptyDict]

NoResponse == [statusCode |-> 0, body |-> <<>>, results |-> NoResults]

\* The notifier is not running.
NotifierIdle ==
    /\ notification = NoNotification
    /\ npc = "idle"
    /\ results = NoResults
    /\ requests = NoRequests
    /\ event = EmptyDict
    /\ response = NoResponse

\* No remediation invocation is running.
RemediationIdle ==
    /\ asg = [found |-> FALSE, DesiredCapacity |-> 0, MaxSize |-> 0, Instances |-> <<>>]
    /\ ec2 = NoStatuses
    /\ message = [p \in Invocations |-> EmptyDict]
    /\ pc = [p \in Invocations |-> "idle"]
    /\ local = [p \in Invocations |-> NoLocals]
    /\ effects = [p \in Invocations |-> <<>>]

\* Two overlapping invocations, each for a firing cpu-utilization-high alarm.
CpuAlarms ==
    {[AlarmName |-> <<"test-", t>>, NewStateValue |-> "ALARM"] :
        t \in {"cpu-utilization-high", "CPU-Utilization-High"}}

InitRace ==
    /\ env \in RemediationEnvs
    /\ asg \in {f \in Fleets : ValidFleet(f)}
    /\ ec2 = NoStatuses
    /\ message \in [Invocations -> CpuAlarms]
    /\ pc = [p \in Invocations |-> "process_alarm"]
    /\ local = [p \in Invocations |-> NoLocals]
    /\ effects = [p \in Invocations |-> <<>>]
    /\ NotifierIdle

NextRace ==
    \E p \in Invocations :
        \/ process_alarm(p)
        \/ handle_high_cpu(p)
        \/ handle_high_cpu_set(p)

SpecRace == InitRace /\ [][NextRace]_vars

\* One invocation, any alarm; the other invocation never starts.
Init ==
    /\ env \in RemediationEnvs
    /\ asg \in RouterFleets
    /\ ec2 \in RouterStatuses
    /\ \E m \in Alarms : message = [p \in Invocations |-> IF p = 1 THEN m ELSE EmptyDict]
    /\ pc = [p \in Invocations |-> IF p = 1 THEN "process_alarm" ELSE "idle"]
    /\ local = [p \in Invocations |-> NoLocals]
    /\ effects = [p \in Invocations |-> <<>>]
    /\ NotifierIdle

Next ==
    \E p \in Invocations :
        \/ process_alarm(p)
        \/ handle_high_cpu(p)
        \/ handle_high_cpu_set(p)
        \/ handle_high_memory(p)
        \/ handle_high_memory_command(p)
        \/ handle_high_disk(p)
        \/ handle_high_disk_command(p)
        \/ handle_unhealthy_targets(p)
        \/ handle_unhealthy_targets_status(p)
        \/ handle_unhealthy_targets_terminate(p)

Spec == Init /\ [][Next]_vars

\* The notifier's fanout of one notification, under every configuration.
Setting == {"", "set"}

NotifyEnvs ==
    [SLACK_WEBHOOK_URL : Setting, DISCORD_WEBHOOK_URL : Setting,
     TEAMS_WEBHOOK_URL : Setting, PAGERDUTY_API_KEY : Setting,
     PAGERDUTY_ROUTING_KEY : Setting, SNS_TOPIC_ARN : Setting,
     DEFAULT_EMAIL : Setting]

FanoutNotifications ==
    {[title |-> <<"T">>, message |-> <<"M">>, severity |-> s, source |-> "direct",
      metadata |-> EmptyDict] : s \in Severities}

InitFanout ==
    /\ env \in NotifyEnvs
    /\ notification \in FanoutNotifications
    /\ npc = Channels[1]
    /\ results = NoResults
    /\ requests = NoRequests
    /\ event = EmptyDict
    /\ response = NoResponse
    /\ RemediationIdle

NextFanout ==
    \/ send_notifications_slack
    \/ send_notifications_discord
    \/ send_notifications_teams
    \/ send_notifications_pagerduty
    \/ send_notifications_sns
    \/ send_notifications_email

SpecFanout == InitFanout /\ [][NextFanout]_vars

\* The notifier's handler, for events of every shape: records of a pub/sub
\* envelope, direct payloads, raw alarms, and events of no known shape.
NarrowTexts == {<<"Service", "degraded">>, <<"Regular", "message">>}

SnsRecord(t) == [EventSource |-> "aws:sns", Sns |-> [Message |-> t]]

Records ==
    {SnsRecord(JsonObject([Message |-> t])) : t \in NarrowTexts \cup {NotText}}
    \cup {SnsRecord(JsonObject([Subject |-> <<"Subject">>, Message |-> <<"error">>])),
          SnsRecord(JsonObject(EmptyDict)), SnsRecord(JsonArray), SnsRecord(Malformed),
          [EventSource |-> "aws:sns"], [EventSource |-> "aws:s3"], EmptyDict}

Envelopes ==
    {[Records |-> r] : r \in UNION {[1..n -> Records] : n \in 0..MaxRecords}}
    \cup {[Records |-> <<SnsRecord(JsonObject([Message |-> t]))>>] : t \in Texts}
    \cup {[Records |-> <<>>, message |-> <<"M">>, severity |-> "critical"],
          [Records |-> <<SnsRecord(JsonObject([Message |-> <<"warn">>]))>>,
           message |-> <<"M">>, severity |-> "critical"]}

DirectPayloads ==
    {[message |-> <<"M">>, severity |-> s] : s \in Severities}
    \cup {[message |-> <<"M">>, severity |-> s, title |-> <<"T">>, source |-> "test",
           metadata |-> [k |-> "v"]] : s \in Severities}
    \cup {[message |-> <<"M">>], [message |-> <<"M">>, title |-> <<"T">>],
          [message |-> <<"M">>, AlarmName |-> <<"test-">>]}

RawAlarms ==
    {[AlarmName |-> <<"test-", "cpu-utilization-high">>, NewStateValue |-> s,
      NewStateReason |-> <<"Threshold", "exceeded">>] : s \in StateValues}
    \cup {[AlarmName |-> <<"test-">>, NewStateValue |-> s] : s \in StateValues}
    \cup {[AlarmName |-> <<"test-">>]}

NoShape == {EmptyDict, [detail |-> "x"], [NewStateValue |-> "ALARM"]}

NotifyEvents == Envelopes \cup DirectPayloads \cup RawAlarms \cup NoShape

\* Nothing configured, or the paging channel and the topic, or one chat
\* channel, alone.
HandlerEnvs ==
    {e \in NotifyEnvs :
        \/ \A k \in DOMAIN e : e[k] = ""
        \/ \A k \in DOMAIN e :
               e[k] = "set" <=> k \in {"PAGERDUTY_API_KEY", "PAGERDUTY_ROUTING_KEY",
                                       "SNS_TOPIC_ARN"}
        \/ \A k \in DOMAIN e : e[k] = "set" <=> k = "SLACK_WEBHOOK_URL"}

InitNotify ==
    /\ env \in HandlerEnvs
    /\ event \in NotifyEvents
    /\ notification = NoNotification
    /\ npc = "lambda_handler"
    /\ results = NoResults
    /\ requests = NoRequests
    /\ response = NoResponse
    /\ RemediationIdle

NextNotify ==
    \/ notify_lambda_handler
    \/ send_notifications_slack
    \/ send_notifications_discord
    \/ send_notifications_teams
    \/ send_notifications_pagerduty
    \/ send_notifications_sns
    \/ send_notifications_email
    \/ notify_lambda_handler_return

SpecNotify == InitNotify /\ [][NextNotify]_vars

\* The remediation trigger's handler: the record of a firing or resolved alarm,
\* as the alarm topic delivers it.
AlarmRecord(name, state) ==
    SnsRecord(JsonObject([AlarmName |-> name, NewStateValue |-> state]))

Firing(t) == AlarmRecord(<<"test-", t>>, "ALARM")

NextHandler ==
    \E p \in Invocations :
        \/ remediation_lambda_handler(p)
        \/ process_alarm(p)
        \/ handle_high_cpu(p)
        \/ handle_high_cpu_set(p)
        \/ handle_high_memory(p)
        \/ handle_high_memory_command(p)
        \/ handle_high_disk(p)
        \/ handle_high_disk_command(p)
        \/ handle_unhealthy_targets(p)
        \/ handle_unhealthy_targets_status(p)
        \/ handle_unhealthy_targets_terminate(p)

\* One invocation for an event of up to MaxRecords records: an alarm for each
\* of the four actions, an alarm without an action, a resolved alarm, a record
\* whose message is no JSON, a firing alarm whose name is no string, a record
\* of another event source.  The lookup by
\* ASG_NAME finds no fleet (there is none, or it goes by another name), or a
\* fleet with no in-service member, or one with an impaired member next to a
\* pending one.
HandlerRecords ==
    {Firing(t) : t \in PatternTokens}
    \cup {AlarmRecord(<<"test-">>, "ALARM"), AlarmRecord(NotText, "ALARM"),
          AlarmRecord(<<"test-", "cpu-utilization-high">>, "OK"),
          SnsRecord(Malformed), [EventSource |-> "aws:s3"]}

HandlerEvents ==
    {[Records |-> r] : r \in UNION {[1..n -> HandlerRecords] : n \in 0..MaxRecords}}
    \cup {EmptyDict}

HandlerFleets ==
    {[found |-> FALSE, DesiredCapacity |-> 0, MaxSize |-> 0, Instances |-> <<>>],
     [found |-> FALSE, DesiredCapacity |-> 1, MaxSize |-> 2,
      Instances |-> <<Member(1, "InService"), Member(2, "Pending")>>],
     [found |-> TRUE, DesiredCapacity |-> 1, MaxSize |-> 2,
      Instances |-> <<Member(1, "Pending")>>],
     [found |-> TRUE, DesiredCapacity |-> 1, MaxSize |-> 2,
      Instances |-> <<Member(1, "InService"), Member(2, "Pending")>>]}

HandlerStatuses ==
    [id \in 1..2 |-> IF id = 1 THEN Status(TRUE, "impaired", "ok")
                     ELSE Status(TRUE, "ok", "ok")]

InitHandler ==
    /\ env \in RemediationEnvs
    /\ asg \in HandlerFleets
    /\ ec2 = HandlerStatuses
    /\ message = [p \in Invocations |-> EmptyDict]
    /\ pc = [p \in Invocations |-> IF p = 1 THEN "lambda_handler" ELSE "idle"]
    /\ \E ev \in HandlerEvents :
           local = [p \in Invocations |->
                       IF p = 1 THEN [NoLocals EXCEPT !.event = ev] ELSE NoLocals]
    /\ effects = [p \in Invocations |-> <<>>]
    /\ NotifierIdle

SpecHandler == InitHandler /\ [][NextHandler]_vars

\* Invocations of the handler one after the other, each for one firing
\* cpu-utilization-high alarm, on a fleet that exists: the next one starts when
\* the one before has returned, up to MaxInvocations of them.
invoke(p) ==
    /\ pc[p] = "returned"
    /\ Len(CallsOf(p, "describe_auto_scaling_groups")) < MaxInvocations
    /\ pc' = [pc EXCEPT ![p] = "lambda_handler"]
    /\ local' = [local EXCEPT ![p] = [NoLocals EXCEPT !.event = local[p].event]]
    /\ message' = [message EXCEPT ![p] = EmptyDict]
    /\ UNCHANGED <<env, asg, ec2, effects, notifyVars>>

InitSequence ==
    /\ env \in RemediationEnvs
    /\ asg \in {f \in Fleets : f.found /\ ValidFleet(f)}
    /\ ec2 = NoStatuses
    /\ message = [p \in Invocations |-> EmptyDict]
    /\ pc = [p \in Invocations |-> IF p = 1 THEN "lambda_handler" ELSE "idle"]
    /\ local = [p \in Invocations |->
                   IF p = 1
                   THEN [NoLocals EXCEPT
                            !.event = [Records |-> <<Firing("cpu-utilization-high")>>]]
                   ELSE NoLocals]
    /\ effects = [p \in Invocations |-> <<>>]
    /\ NotifierIdle

NextSequence ==
    \E p \in Invocations :
        \/ invoke(p)
        \/ remediation_lambda_handler(p)
        \/ process_alarm(p)
        \/ handle_high_cpu(p)
        \/ handle_high_cpu_set(p)

SpecSequence == InitSequence /\ [][NextSequence]_vars

\* One invocation for one alarm (for the ClearCache alarm followed by the
\* CleanDisk alarm, too), on fleets with every list of up to MaxInstances
\* members in every lifecycle state, and every status of each member when the
\* alarm is for CullUnhealthy.
LifecycleStates == {"InService", "Pending", "Terminating"}

MemberLists ==
    UNION {{[i \in 1..n |-> Member(i, states[i])] : states \in [1..n -> LifecycleStates]} :
              n \in 0..MaxInstances}

BatchFleets ==
    {[found |-> TRUE, DesiredCapacity |-> 1, MaxSize |-> 2, Instances |-> m] :
        m \in MemberLists}
    \cup {[found |-> FALSE, DesiredCapacity |-> 0, MaxSize |-> 0, Instances |-> <<>>]}

MemberStatuses ==
    {Status(FALSE, "ok", "ok"), Status(TRUE, "ok", "ok"),
     Status(TRUE, "impaired", "ok"), Status(TRUE, "ok", "impaired")}

BatchEvents ==
    {[Records |-> <<Firing(t)>>] : t \in PatternTokens}
    \cup {[Records |-> <<Firing("memory-utilization-high"),
                         Firing("disk-utilization-high")>>]}

InitBatch ==
    /\ env \in RemediationEnvs
    /\ asg \in BatchFleets
    /\ message = [p \in Invocations |-> EmptyDict]
    /\ pc = [p \in Invocations |-> IF p = 1 THEN "lambda_handler" ELSE "idle"]
    /\ \E ev \in BatchEvents :
           /\ local = [p \in Invocations |->
                          IF p = 1 THEN [NoLocals EXCEPT !.event = ev] ELSE NoLocals]
           /\ ec2 \in IF ev = [Records |-> <<Firing("unhealthy-targets")>>]
                      THEN [1..MaxInstances -> MemberStatuses]
                      ELSE {[id \in 1..MaxInstances |-> Status(TRUE, "ok", "ok")]}
    /\ effects = [p \in Invocations |-> <<>>]
    /\ NotifierIdle

SpecBatch == InitBatch /\ [][NextHandler]_vars

\* ================================================================== claims
\* ------------------------------------------------------------------ ScaleOut
Ops(e) == [i \in DOMAIN e |-> e[i].op]

ReadSnapshot(p) == local[p].described = "found"

Adjusted(p) ==
    \E i \in DOMAIN effects[p] :
        effects[p][i].op = "set_desired_capacity" /\ effects[p][i].result = "ok"

\* C1: every capacity-adjust call an invocation of handle_high_cpu issues
\* carries a desired value that is not above the maximum read in that
\* invocation; an invocation that read current >= maximum issues no
\* capacity-adjust call at all and sends exactly one notification, the
\* "already at maximum capacity" advisory.
C1_ScaleOutNeverAboveMax ==
    \A p \in Invocations :
        /\ \A i \in DOMAIN effects[p] :
               effects[p][i].op = "set_desired_capacity"
                   => ReadSnapshot(p) /\ effects[p][i].arg <= local[p].max_capacity
        /\ (ReadSnapshot(p) /\ local[p].current_capacity >= local[p].max_capacity)
               => /\ pc[p] = "completed"
                  /\ CallsOf(p, "set_desired_capacity") = <<>>
                  /\ Len(Notifications(p)) = 1
                  /\ Notifications(p)[1].text = "already at maximum capacity"

\* One invocation raised the fleet to its maximum, the other then found it there.
C1_Witness ==
    \E p, q \in Invocations :
        /\ Adjusted(p)
        /\ CallsOf(p, "set_desired_capacity")[1].arg = local[p].max_capacity
        /\ ReadSnapshot(q) /\ pc[q] = "completed"
        /\ local[q].current_capacity >= local[q].max_capacity
        /\ local[q].max_capacity > 0

\* C2 as stated: a firing cpu-utilization-high alarm processed with the
\* fleet at c < max gives exactly one capacity-adjust call, with desired
\* c + 1, followed by exactly one notification reporting "c to c + 1".
C2_AsStated ==
    \A p \in Invocations :
        (/\ pc[p] = "completed" /\ ReadSnapshot(p)
         /\ local[p].current_capacity < local[p].max_capacity)
            => /\ Ops(effects[p]) = <<"describe_auto_scaling_groups",
                                      "set_desired_capacity", "send_notification">>
               /\ effects[p][2].arg = local[p].current_capacity + 1
               /\ effects[p][3].text = "Scaled up"
               /\ effects[p][3].a = local[p].current_capacity
               /\ effects[p][3].b = local[p].current_capacity + 1

\* C2 (amended): a firing cpu-utilization-high alarm processed with the fleet
\* at c < max gives exactly one capacity-adjust call, with desired c + 1,
\* followed by exactly one notification: the report "c to c + 1" when the
\* capacity-adjust call returned, the error advisory when it raised.
C2_ScaleOutByOne ==
    \A p \in Invocations :
        (/\ pc[p] = "completed" /\ ReadSnapshot(p)
         /\ local[p].current_capacity < local[p].max_capacity)
            => /\ Ops(effects[p]) = <<"describe_auto_scaling_groups",
                                      "set_desired_capacity", "send_notification">>
               /\ effects[p][2].arg = local[p].current_capacity + 1
               /\ IF effects[p][2].result = "ok"
                  THEN /\ effects[p][3].text = "Scaled up"
                       /\ effects[p][3].a = local[p].current_capacity
                       /\ effects[p][3].b = local[p].current_capacity + 1
                  ELSE effects[p][3].text = "Error in high CPU remediation"

\* The scenario of the specification: capacity 2, maximum larger, one call
\* with desired 3 and the report "2 to 3".
C2_Witness ==
    \E p \in Invocations :
        /\ pc[p] = "completed" /\ ReadSnapshot(p)
        /\ local[p].current_capacity = 2 /\ local[p].max_capacity > 2
        /\ effects[p][2].arg = 3 /\ effects[p][2].result = "ok"
        /\ effects[p][3].a = 2 /\ effects[p][3].b = 3
        /\ asg.DesiredCapacity = 3

\* Both invocations read the capacity c and both capacity-adjust calls returned.
BothAdjustedFrom(c) ==
    \A p \in Invocations :
        /\ pc[p] = "completed" /\ ReadSnapshot(p) /\ Adjusted(p)
        /\ local[p].current_capacity = c

\* C3: when two concurrent invocations both read the desired capacity c
\* before either wrote (so both read c) and both then wrote, each intended
\* an increment of 1 but the fleet's desired capacity has grown by less than
\* the 2 the two increments add up to: one update is lost.
C3_LostUpdate ==
    \A c \in 0..MaxCapacity :
        BothAdjustedFrom(c)
            => /\ \A p \in Invocations : local[p].new_capacity - c = 1
               /\ asg.DesiredCapacity - c < 2

C3_Witness ==
    \E c \in 0..MaxCapacity : BothAdjustedFrom(c) /\ asg.DesiredCapacity = c + 1

\* C4 as stated: some interleaving of two concurrent invocations leaves the
\* desired capacity above the configured maximum; put on the interleavings in
\* which both invocations adjusted the capacity.
C4_AsStated ==
    (\A p \in Invocations : pc[p] = "completed" /\ Adjusted(p))
        => asg.DesiredCapacity > asg.MaxSize

\* C4 (amended): in every interleaving of the reads and writes of two
\* concurrent invocations the desired capacity stays at or below the
\* configured maximum.
C4_NeverAboveMax == asg.DesiredCapacity <= asg.MaxSize

\* Both invocations read max - 1 before either wrote, and both wrote.
C4_Witness ==
    /\ BothAdjustedFrom(asg.MaxSize - 1)
    /\ asg.DesiredCapacity = asg.MaxSize

\* ------------------------------------------------------------------ router
Started(p) == pc[p] \notin {"idle", "process_alarm"}

AlarmNameOf(p) == DictGet(message[p], "AlarmName", <<>>)

StateOf(p) == DictGet(message[p], "NewStateValue", "")

\* C5: an alarm whose state is anything but "ALARM" (OK, another value, a
\* different case, or no state at all), whatever its name, ends in the
\* terminal SKIPPED outcome: no remediation action is invoked, no collaborator
\* is called and no notification is sent.
C5_NotFiringIsSkipped ==
    \A p \in Invocations :
        (Started(p) /\ StateOf(p) # "ALARM")
            => /\ pc[p] = "skipped"
               /\ local[p].handlers = <<>>
               /\ effects[p] = <<>>
               /\ ~ENABLED process_alarm(p)

\* A lower-case "alarm" state on a name with a recognised pattern.
C5_Witness ==
    \E p \in Invocations :
        /\ pc[p] = "skipped"
        /\ StateOf(p) = "alarm"
        /\ AlarmNameOf(p) = <<"test-", "cpu-utilization-high">>

\* The patterns in the order the router tries them, and their actions.
PatternOrder ==
    <<"cpu-utilization-high", "memory-utilization-high",
      "disk-utilization-high", "unhealthy-targets">>

ActionOrder ==
    <<"handle_high_cpu", "handle_high_memory",
      "handle_high_disk", "handle_unhealthy_targets">>

\* The patterns the name contains, upper and lower case alike.
Matched(name) ==
    {k \in DOMAIN PatternOrder :
        \E i \in DOMAIN name : LowerToken(name[i]) = PatternOrder[k]}

Earliest(name) == CHOOSE k \in Matched(name) : \A j \in Matched(name) : k <= j

\* The steps and the collaborator calls that belong to each action.
StepsOf(action) ==
    CASE action = "handle_high_cpu" -> {"handle_high_cpu", "set_desired_capacity"}
      [] action = "handle_high_memory" -> {"handle_high_memory", "memory_send_command"}
      [] action = "handle_high_disk" -> {"handle_high_disk", "disk_send_command"}
      [] action = "handle_unhealthy_targets" ->
             {"handle_unhealthy_targets", "describe_instance_status", "terminate_instance"}

CallsAllowed(action) ==
    CASE action = "handle_high_cpu" ->
             {"describe_auto_scaling_groups", "set_desired_capacity"}
      [] action \in {"handle_high_memory", "handle_high_disk"} ->
             {"describe_auto_scaling_groups", "send_command"}
      [] action = "handle_unhealthy_targets" ->
             {"describe_auto_scaling_groups", "describe_instance_status",
              "terminate_instance_in_auto_scaling_group"}

\* C6: a firing alarm gets exactly one outcome: the action of the earliest
\* pattern, in the order cpu, memory, disk, unhealthy-targets, that its name
\* contains in any letter case, and Unsupported when it contains none; only
\* that action runs and only its collaborators are called, never two actions.
C6_RoutesToEarliestPattern ==
    \A p \in Invocations :
        (Started(p) /\ StateOf(p) = "ALARM")
            => IF Matched(AlarmNameOf(p)) = {}
               THEN local[p].handlers = <<>> /\ pc[p] = "completed"
               ELSE LET action == ActionOrder[Earliest(AlarmNameOf(p))]
                    IN  /\ local[p].handlers = <<action>>
                        /\ pc[p] \in StepsOf(action) \cup {"completed"}
                        /\ \A i \in DOMAIN ApiCalls(p) :
                               ApiCalls(p)[i].op \in CallsAllowed(action)

\* A name with two patterns, the later one first in the text and the earlier
\* one in mixed case: only the earlier pattern's action ran.
C6_Witness ==
    \E p \in Invocations :
        /\ StateOf(p) = "ALARM"
        /\ AlarmNameOf(p) = <<"unhealthy-targets", "Memory-Utilization-HIGH">>
        /\ pc[p] = "completed"
        /\ local[p].handlers = <<"handle_high_memory">>
        /\ CallsOf(p, "send_command") # <<>>

\* C7: a firing alarm whose name contains none of the four patterns calls
\* none of the four actions and no fleet, health or remote-command
\* collaborator, and sends exactly one notification, the advisory
\* "triggered but no remediation configured".
C7_UnrecognizedIsAdvisoryOnly ==
    \A p \in Invocations :
        (/\ Started(p) /\ StateOf(p) = "ALARM"
         /\ \A i \in DOMAIN AlarmNameOf(p) :
                LowerToken(AlarmNameOf(p)[i]) \notin PatternTokens)
            => /\ local[p].handlers = <<>>
               /\ ApiCalls(p) = <<>>
               /\ Len(effects[p]) = 1
               /\ effects[p][1].op = "send_notification"
               /\ effects[p][1].text = "triggered but no remediation configured"

\* A firing alarm without a name.
C7_Witness ==
    \E p \in Invocations :
        /\ pc[p] = "completed" /\ StateOf(p) = "ALARM"
        /\ "AlarmName" \notin DOMAIN message[p]
        /\ Len(Notifications(p)) = 1

\* ------------------------------------------------------------------ fanout
ConfiguredChannels ==
    {c \in ChannelSet :
        \/ c = "slack" /\ env.SLACK_WEBHOOK_URL # ""
        \/ c = "discord" /\ env.DISCORD_WEBHOOK_URL # ""
        \/ c = "teams" /\ env.TEAMS_WEBHOOK_URL # ""
        \/ c = "pagerduty" /\ env.PAGERDUTY_API_KEY # "" /\ env.PAGERDUTY_ROUTING_KEY # ""
        \/ c = "sns" /\ env.SNS_TOPIC_ARN # ""
        \/ c = "email" /\ env.DEFAULT_EMAIL # ""}

Position(c) == CHOOSE i \in DOMAIN Channels : Channels[i] = c

\* send_notifications is past the statement of channel c.
Passed(c) ==
    \/ npc = "returned"
    \/ npc \in ChannelSet /\ Position(c) < Position(npc)

ErrorText(c) ==
    CASE c = "slack" -> "Error sending Slack notification"
      [] c = "discord" -> "Error sending Discord notification"
      [] c = "teams" -> "Error sending Teams notification"
      [] c = "pagerduty" -> "Error sending PagerDuty notification"
      [] c = "sns" -> "Error sending SNS notification"
      [] c = "email" -> "Error sending email notification"

\* What a channel reports, from its own transport outcome and the
\* notification alone.
OwnStatus(c) ==
    IF c \in DOMAIN requests
    THEN IF requests[c] = "ok" THEN "success" ELSE "error"
    ELSE IF /\ c = "pagerduty" /\ Hashable(notification.severity)
            /\ notification.severity \notin {"critical", "error"}
         THEN "skipped"
         ELSE "error"

\* C8: in a fanout, every configured channel is attempted (its result is in
\* the mapping once its statement is passed) whichever other channels failed;
\* a channel whose transport failed reports status error with its error
\* message; and what a channel reports is decided by its own transport
\* outcome and the notification, not by any other channel.
C8_ChannelFailureIsolated ==
    \A c \in ConfiguredChannels :
        Passed(c)
            => /\ c \in DOMAIN results
               /\ (c \in DOMAIN requests /\ requests[c] = "fail")
                      => results[c] = [status |-> "error", detail |-> ErrorText(c)]
               /\ results[c].status = OwnStatus(c)

\* The first channel failed; one after it succeeded, the last one failed.
C8_Witness ==
    /\ npc = "returned"
    /\ {"slack", "teams", "email"} \subseteq ConfiguredChannels
    /\ requests["slack"] = "fail" /\ results["slack"].status = "error"
    /\ requests["teams"] = "ok" /\ results["teams"].status = "success"
    /\ requests["email"] = "fail" /\ results["email"].status = "error"

\* C9: send_notifications never raises and always comes to its return: no
\* exception leaves it, every state before the return has a next statement to
\* run, and it returns a mapping with one entry per configured channel, also
\* when every configured channel failed.
C9_FanoutNeverRaises ==
    /\ npc \in ChannelSet \cup {"returned", "idle"}
    /\ npc \in ChannelSet => ENABLED NextFanout
    /\ npc = "returned" =>
           Cardinality(DOMAIN results) = Cardinality(ConfiguredChannels)

\* All six channels configured and all six failed.
C9_Witness ==
    /\ npc = "returned"
    /\ ConfiguredChannels = ChannelSet
    /\ \A c \in ChannelSet : c \in DOMAIN results /\ results[c].status = "error"
    /\ \A c \in ChannelSet : c \in DOMAIN requests /\ requests[c] = "fail"

\* C10: the keys of the result mapping are exactly the configured channels:
\* a channel without configuration never gets an entry, and a configured
\* paging channel has an entry (skipped, success or error) whatever the
\* severity.
C10_KeysAreConfiguredChannels ==
    /\ DOMAIN results \subseteq ConfiguredChannels
    /\ npc = "returned" => DOMAIN results = ConfiguredChannels
    /\ ("pagerduty" \in ConfiguredChannels /\ Passed("pagerduty"))
           => /\ "pagerduty" \in DOMAIN results
              /\ results["pagerduty"].status \in {"skipped", "success", "error"}

\* Paging configured and skipped for an info notification; the chat channel
\* without a webhook has no entry.
C10_Witness ==
    /\ npc = "returned"
    /\ env.SLACK_WEBHOOK_URL = "" /\ "slack" \notin DOMAIN results
    /\ notification.severity = "info"
    /\ "pagerduty" \in DOMAIN results /\ results["pagerduty"].status = "skipped"
    /\ DOMAIN results = {"pagerduty", "email"}

\* ------------------------------------------------------------------ paging
\* C11: once the fanout is past a configured paging channel, a severity
\* outside {critical, error} left the result skipped and no transport request,
\* a severity of critical or error left one transport request, and every
\* other configured channel whose statement is passed was still called.
C11_AsStated ==
    ("pagerduty" \in ConfiguredChannels /\ Passed("pagerduty"))
        => /\ notification.severity \notin {"critical", "error"}
                  => /\ results["pagerduty"].status = "skipped"
                     /\ "pagerduty" \notin DOMAIN requests
           /\ notification.severity \in {"critical", "error"}
                  => "pagerduty" \in DOMAIN requests
           /\ \A c \in ConfiguredChannels : Passed(c) => c \in DOMAIN results

\* ------------------------------------------------------------------ normalisation
Normalized == npc \notin {"idle", "lambda_handler"} /\ response.statusCode # 500

\* C12: once the notifier has normalised an event it accepts, the severity of
\* the notification is one of the five levels.
C12_AsStated == Normalized => notification.severity \in SEVERITY_LEVELS

\* ------------------------------------------------------------------ classifier
TierNames == <<"critical", "error", "warning", "success">>

TierWords ==
    <<{"critical", "down", "failed", "failure"}, {"error", "problem", "issue"},
      {"warning", "warn", "degraded"}, {"success", "resolved", "recovered", "healthy"}>>

\* The tiers of which the text holds a keyword, in whatever case.
TiersIn(text) ==
    {k \in DOMAIN TierWords : \E w \in TierWords[k] : In(w, lower(text))}

HighestTier(text) ==
    IF TiersIn(text) = {} THEN "info"
    ELSE TierNames[CHOOSE k \in TiersIn(text) : \A j \in TiersIn(text) : k <= j]

\* The event is an envelope of one record whose message text is a string.
ClassifiedText ==
    /\ "Records" \in DOMAIN event /\ "message" \notin DOMAIN event
    /\ Len(event.Records) = 1
    /\ "Sns" \in DOMAIN event.Records[1]
    /\ event.Records[1].Sns.Message.text = "object"
    /\ "Message" \in DOMAIN event.Records[1].Sns.Message.object
    /\ IsText(event.Records[1].Sns.Message.object.Message)

TextOf(ev) == ev.Records[1].Sns.Message.object.Message

\* C13: for every message text the classifier returns a severity (it does not
\* raise), and that severity is the first tier, in the order critical, error,
\* warning, success, of which the text holds a keyword in any case, and info
\* when it holds none.
C13_FirstMatchingTierWins ==
    ClassifiedText
        => /\ response.statusCode # 500
           /\ npc # "lambda_handler" =>
                  notification.severity = HighestTier(TextOf(event))

\* A text with a success-tier word before an upper-case critical-tier word
\* was classified critical.
C13_Witness ==
    /\ ClassifiedText
    /\ TextOf(event) = <<"recovered", "DOWN">>
    /\ npc = "done"
    /\ notification.severity = "critical"

\* ------------------------------------------------------------------ notifier's handler
\* C14: the notifier's handler always comes to a return and no exception
\* leaves it; what it returns is status 500 with the error text exactly when
\* normalisation raised, and otherwise status 200 with the result of every
\* configured channel, whatever those results are.
C14_HandlerOutcome ==
    /\ npc # "raised"
    /\ npc \notin {"done", "lambda_handler"}
           => ENABLED NextFanout \/ ENABLED notify_lambda_handler_return
    /\ npc = "done" =>
           LET parsed == parse_notification(event)
           IN  /\ response.statusCode \in {200, 500}
               /\ response.statusCode = 500 <=> parsed.raised # ""
               /\ response.statusCode = 500 =>
                      /\ response.body = <<"Error:", parsed.raised>>
                      /\ requests = NoRequests
               /\ response.statusCode = 200 =>
                      /\ response.results = results
                      /\ DOMAIN response.results = ConfiguredChannels

\* Status 200 although both configured channels were tried and failed.
C14_Witness ==
    /\ npc = "done"
    /\ response.statusCode = 200
    /\ ConfiguredChannels = {"pagerduty", "sns"}
    /\ \A c \in ConfiguredChannels :
           /\ c \in DOMAIN requests /\ requests[c] = "fail"
           /\ response.results[c].status = "error"

\* ------------------------------------------------------------------ failures of collaborators
IsSns(record) == DictGet(record, "EventSource", "None") = "aws:sns"

Loadable(record) == "Sns" \in DOMAIN record /\ record.Sns.Message.text = "object"

EventRecords(p) == DictGet(local[p].event, "Records", <<>>)

\* process_alarm raises for it.
Unnamed(record) ==
    LET alarm == record.Sns.Message.object
    IN  /\ DictGet(alarm, "NewStateValue", "") = "ALARM"
        /\ ~IsText(DictGet(alarm, "AlarmName", <<>>))

HasMalformed(records) ==
    \E k \in DOMAIN records :
        IsSns(records[k]) /\ (~Loadable(records[k]) \/ Unnamed(records[k]))

\* Where process_alarm goes for each record of an event that holds a firing
\* alarm, one after the other, up to the first record that cannot be loaded or processed.
RECURSIVE RoutesFor(_)
RoutesFor(records) ==
    IF records = <<>> THEN <<>>
    ELSE LET record == Head(records)
             alarm == record.Sns.Message.object
         IN  IF ~IsSns(record) THEN RoutesFor(Tail(records))
             ELSE IF ~Loadable(record) \/ Unnamed(record) THEN <<>>
             ELSE IF DictGet(alarm, "NewStateValue", "") = "ALARM"
             THEN <<Route(DictGet(alarm, "AlarmName", <<>>))>> \o RoutesFor(Tail(records))
             ELSE RoutesFor(Tail(records))

\* The actions the records of an event ask for.
HandlersFor(records) == SelectSeq(RoutesFor(records), LAMBDA h : h # "unsupported")

Failed(x) == x.op \in ApiOps /\ x.result = "raise"

ErrorAdvisories ==
    {"Error in high CPU remediation", "Error in unhealthy target remediation"}

IsErrorAdvisory(x) == x.op = "send_notification" /\ x.text \in ErrorAdvisories

\* A failure inside get_asg_instances or of a remote command: caught and logged there.
LoggedOnly(x) ==
    \/ x.op = "send_command"
    \/ x.op = "describe_auto_scaling_groups" /\ x.text = "get_asg_instances"

\* The handler returned 200 after calling every action its records ask for.
AllRecordsProcessed(p) ==
    pc[p] = "returned" =>
        /\ local[p].statusCode = IF HasMalformed(EventRecords(p)) THEN 500 ELSE 200
        /\ local[p].handlers = HandlersFor(EventRecords(p))

\* C15 as stated: when the handler has returned, every failed collaborator
\* call of an action is followed by a notification, and the handler returned
\* its success outcome after processing every record.
C15_AsStated ==
    \A p \in Invocations :
        /\ AllRecordsProcessed(p)
        /\ pc[p] = "returned" =>
               \A i \in DOMAIN effects[p] :
                   Failed(effects[p][i])
                       => \E j \in DOMAIN effects[p] :
                              j > i /\ effects[p][j].op = "send_notification"

\* C15: no failure of a collaborator call leaves an action: the handler
\* returns its success outcome (status 500 only for a record that cannot be
\* loaded) after calling the action of every record, whichever calls failed.
\* A failed fleet lookup of ScaleOut, capacity-adjust call, health-status call
\* or termination call is followed at once by the action's error advisory; a
\* failed member lookup (get_asg_instances) or remote command is logged only,
\* no error advisory follows it.
C15_FailureStaysInAction ==
    \A p \in Invocations :
        /\ AllRecordsProcessed(p)
        /\ \A i \in DOMAIN effects[p] :
               Failed(effects[p][i]) =>
                   IF LoggedOnly(effects[p][i])
                   THEN i < Len(effects[p]) => ~IsErrorAdvisory(effects[p][i + 1])
                   ELSE i < Len(effects[p]) /\ IsErrorAdvisory(effects[p][i + 1])

\* Two records: the health-status call of the first one's action failed and
\* was notified, the member lookup of the second one's action failed, and the
\* handler returned 200 with both actions called.
C15_Witness ==
    /\ pc[1] = "returned" /\ local[1].statusCode = 200
    /\ local[1].handlers = <<"handle_unhealthy_targets", "handle_high_memory">>
    /\ Len(effects[1]) = 4
    /\ effects[1][2].op = "describe_instance_status" /\ effects[1][2].result = "raise"
    /\ IsErrorAdvisory(effects[1][3])
    /\ LoggedOnly(effects[1][4]) /\ effects[1][4].result = "raise"

\* ------------------------------------------------------------------ batches
\* Every action starts with a fleet lookup: the n-th action's part of the log
\* runs from the n-th lookup up to the next one.
Lookups(e) == {i \in DOMAIN e : e[i].op = "describe_auto_scaling_groups"}

NthLookup(e, n) ==
    CHOOSE i \in Lookups(e) : Cardinality({j \in Lookups(e) : j <= i}) = n

Segment(e, n) ==
    LET from == NthLookup(e, n)
        to == IF Cardinality(Lookups(e)) > n THEN NthLookup(e, n + 1) - 1 ELSE Len(e)
    IN  SubSeq(e, from, to)

RECURSIVE InServiceOf(_)
InServiceOf(members) ==
    IF members = <<>> THEN <<>>
    ELSE IF Head(members).LifecycleState = "InService"
    THEN <<Head(members).InstanceId>> \o InServiceOf(Tail(members))
    ELSE InServiceOf(Tail(members))

\* The members a batch action found: the in-service ones of the fleet at the
\* time of its lookup, none when the lookup failed or the fleet is absent.
MembersFound(seg, fleet) ==
    IF seg[1].result = "ok" /\ fleet.found THEN InServiceOf(fleet.Instances) ELSE <<>>

Args(e) == [i \in DOMAIN e |-> e[i].arg]

Commands(seg) == SelectSeq(seg, LAMBDA x : x.op = "send_command")

Sent(seg) == SelectSeq(seg, LAMBDA x : x.op = "send_notification")

\* The batch of a returned invocation's n-th action: one command per member
\* found, in order, whichever of them failed.
OneCommandPerMember(seg) == Args(Commands(seg)) = MembersFound(seg, asg)

OneSummary(seg, text) ==
    /\ Len(Sent(seg)) = 1
    /\ seg[Len(seg)].op = "send_notification"
    /\ seg[Len(seg)].text = text
    /\ seg[Len(seg)].a = Len(MembersFound(seg, asg))

Ran(p, n, handler) ==
    /\ pc[p] = "returned"
    /\ n \in DOMAIN local[p].handlers
    /\ local[p].handlers[n] = handler

\* C16 as stated: ClearCache attempts one command per in-service member,
\* whichever commands fail, and sends exactly one summary notification after
\* the batch, for every set of members.
C16_AsStated ==
    \A p \in Invocations : \A n \in DOMAIN local[p].handlers :
        Ran(p, n, "handle_high_memory")
            => /\ OneCommandPerMember(Segment(effects[p], n))
               /\ OneSummary(Segment(effects[p], n), "Cleared memory caches")

\* C16: ClearCache attempts exactly one command per in-service member, in
\* order, whichever of the commands fail; a non-empty batch is followed by
\* exactly one summary notification, and with no in-service member (also when
\* the lookup failed or the fleet is absent) nothing is sent at all.
C16_ClearCacheBatch ==
    \A p \in Invocations : \A n \in DOMAIN local[p].handlers :
        Ran(p, n, "handle_high_memory")
            => LET seg == Segment(effects[p], n)
               IN  /\ OneCommandPerMember(seg)
                   /\ IF MembersFound(seg, asg) = <<>>
                      THEN Len(seg) = 1
                      ELSE OneSummary(seg, "Cleared memory caches")

\* Two members in service: the first command failed, the second was still
\* sent, one summary followed.
C16_Witness ==
    /\ Ran(1, 1, "handle_high_memory")
    /\ Len(effects[1]) = 4
    /\ effects[1][2].op = "send_command" /\ effects[1][2].result = "raise"
    /\ effects[1][3].op = "send_command" /\ effects[1][3].result = "ok"
    /\ effects[1][4].text = "Cleared memory caches" /\ effects[1][4].a = 2

\* ClearCache and CleanDisk ran one after the other and found the same members.
SameMembers(p) ==
    /\ pc[p] = "returned"
    /\ local[p].handlers = <<"handle_high_memory", "handle_high_disk">>
    /\ MembersFound(Segment(effects[p], 1), asg) = MembersFound(Segment(effects[p], 2), asg)

\* C17: CleanDisk attempts one command per in-service member, whichever
\* commands fail, sends exactly one summary notification after the batch, and
\* sends as many notifications as ClearCache on the same member set.
C17_AsStated ==
    \A p \in Invocations :
        /\ \A n \in DOMAIN local[p].handlers :
               Ran(p, n, "handle_high_disk")
                   => /\ OneCommandPerMember(Segment(effects[p], n))
                      /\ OneSummary(Segment(effects[p], n), "Cleaned disk space")
        /\ SameMembers(p)
               => Len(Sent(Segment(effects[p], 1))) = Len(Sent(Segment(effects[p], 2)))

\* ------------------------------------------------------------------ CullUnhealthy
Terminations(e) ==
    SelectSeq(e, LAMBDA x : x.op = "terminate_instance_in_auto_scaling_group")

NoCallFailed(e) == \A i \in DOMAIN e : ~Failed(e[i])

\* The health service reports a status for the instance, and its instance
\* status or its system status is not "ok".
NotHealthy(id) ==
    /\ ec2[id].reported
    /\ ec2[id].InstanceStatus # "ok" \/ ec2[id].SystemStatus # "ok"

\* C18: when CullUnhealthy has run without a failing call, the termination
\* requests are those for the in-service members whose instance-level or
\* system-level status is not ok, one each and in order; every termination
\* request, in any run, carries ShouldDecrementDesiredCapacity=False and
\* leaves the desired capacity as it was; and there is one notification per
\* terminated instance, naming it, none when all members are healthy.
C18_CullUnhealthy ==
    \A p \in Invocations :
        /\ \A i \in DOMAIN effects[p] :
               effects[p][i].op = "terminate_instance_in_auto_scaling_group"
                   => effects[p][i].text = "ShouldDecrementDesiredCapacity=False"
        /\ EventRecords(p) = <<Firing("unhealthy-targets")>>
               => asg.DesiredCapacity = IF asg.found THEN 1 ELSE 0
        /\ (Ran(p, 1, "handle_unhealthy_targets") /\ NoCallFailed(effects[p]))
               => /\ Args(Terminations(effects[p]))
                         = SelectSeq(local[p].instances, NotHealthy)
                  /\ Len(Sent(effects[p])) = Len(Terminations(effects[p]))
                  /\ \A k \in DOMAIN Sent(effects[p]) :
                         /\ Sent(effects[p])[k].text = "Terminated unhealthy instance"
                         /\ Sent(effects[p])[k].a = Terminations(effects[p])[k].arg

\* Two in-service members: the first healthy, the second with an impaired
\* system status; only the second was terminated, with one notification.
C18_Witness ==
    /\ Ran(1, 1, "handle_unhealthy_targets") /\ NoCallFailed(effects[1])
    /\ local[1].instances = <<1, 2>>
    /\ ec2[1] = Status(TRUE, "ok", "ok")
    /\ ec2[2] = Status(TRUE, "ok", "impaired")
    /\ Args(Terminations(effects[1])) = <<2>>
    /\ Len(Sent(effects[1])) = 1

\* ------------------------------------------------------------------ members in service
MemberLookups(e) == {i \in DOMAIN e : e[i] \in {GetCall("ok"), GetCall("raise")}}

LastMemberLookup(e) == CHOOSE i \in MemberLookups(e) : \A j \in MemberLookups(e) : j <= i

MemberOps ==
    {"send_command", "describe_instance_status", "terminate_instance_in_auto_scaling_group"}

TerminatedBy(p, id) ==
    \E j \in DOMAIN effects[p] :
        /\ effects[p][j].op = "terminate_instance_in_auto_scaling_group"
        /\ effects[p][j].arg = id /\ effects[p][j].result = "ok"

\* C19: as long as no member has been terminated since the last call of
\* get_asg_instances, the list it returned is the identifiers of the fleet's
\* InService members in the order of the fleet's member list, and the empty
\* list when the lookup raised or the fleet is absent; and every command,
\* status query and termination of an action is addressed to a member that is
\* InService, or that this invocation has itself terminated.
C19_OnlyInServiceMembers ==
    \A p \in Invocations :
        /\ MemberLookups(effects[p]) # {} =>
               LET i == LastMemberLookup(effects[p])
               IN  (\A j \in DOMAIN effects[p] :
                        j > i => effects[p][j].op # "terminate_instance_in_auto_scaling_group")
                       => local[p].instances = MembersFound(<<effects[p][i]>>, asg)
        /\ \A i \in DOMAIN effects[p] :
               effects[p][i].op \in MemberOps =>
                   \E k \in DOMAIN asg.Instances :
                       /\ asg.Instances[k].InstanceId = effects[p][i].arg
                       /\ \/ asg.Instances[k].LifecycleState = "InService"
                          \/ TerminatedBy(p, effects[p][i].arg)

\* A pending member in front of an in-service one: only the second was
\* returned, and the command went to it.
C19_Witness ==
    /\ asg.Instances = <<Member(1, "Pending"), Member(2, "InService")>>
    /\ local[1].instances = <<2>>
    /\ \E i \in DOMAIN effects[1] :
           effects[1][i].op = "send_command" /\ effects[1][i].arg = 2

\* ------------------------------------------------------------------ absent fleet
TextsOf(e) == [i \in DOMAIN e |-> e[i].text]

\* The fleet lookup of every action so far returned, with an empty group list.
FleetAbsent(p) == ~asg.found /\ NoCallFailed(effects[p])

\* What is notified when the fleet is absent: CleanDisk's summary, the
\* advisory for an alarm without an action, the error of a record that cannot
\* be loaded.
RECURSIVE AbsentTexts(_)
AbsentTexts(routes) ==
    IF routes = <<>> THEN <<>>
    ELSE (CASE Head(routes) = "handle_high_disk" -> <<"Cleaned disk space">>
            [] Head(routes) = "unsupported" -> <<"triggered but no remediation configured">>
            [] OTHER -> <<>>) \o AbsentTexts(Tail(routes))

\* C20 as stated: with the fleet absent, an invocation that has returned
\* issued no capacity-adjust, command, status or termination call, returned
\* its success outcome, and each action it ran emitted a notification.
C20_AsStated ==
    \A p \in Invocations :
        (FleetAbsent(p) /\ pc[p] = "returned" /\ ~HasMalformed(EventRecords(p)))
            => /\ \A i \in DOMAIN effects[p] :
                      effects[p][i].op \notin MemberOps \cup {"set_desired_capacity"}
               /\ local[p].statusCode = 200
               /\ Len(Sent(effects[p])) >= Len(local[p].handlers)

\* C20: with the fleet absent, no action issues a capacity-adjust, command,
\* status or termination call, and the handler returns its success outcome
\* after running the action of every record; ScaleOut, ClearCache and
\* CullUnhealthy send no notification, CleanDisk sends its summary, for 0
\* instances.
C20_AbsentFleetIsNoOp ==
    \A p \in Invocations :
        FleetAbsent(p)
            => /\ \A i \in DOMAIN effects[p] :
                      /\ effects[p][i].op \notin MemberOps \cup {"set_desired_capacity"}
                      /\ effects[p][i].text = "Cleaned disk space" => effects[p][i].a = 0
               /\ AllRecordsProcessed(p)
               /\ pc[p] = "returned" =>
                      TextsOf(Sent(effects[p])) =
                          AbsentTexts(RoutesFor(EventRecords(p)))
                          \o (IF HasMalformed(EventRecords(p))
                              THEN <<"Error in remediation Lambda">> ELSE <<>>)

\* Fleet absent although it has a member in service: the ScaleOut record and
\* then the CleanDisk record were processed with one lookup each, the only
\* notification is CleanDisk's, and the handler returned 200.
C20_Witness ==
    /\ FleetAbsent(1) /\ pc[1] = "returned" /\ local[1].statusCode = 200
    /\ asg.Instances # <<>>
    /\ local[1].handlers = <<"handle_high_cpu", "handle_high_disk">>
    /\ Len(effects[1]) = 3
    /\ effects[1][3].text = "Cleaned disk space"

\* ------------------------------------------------------------------ raw alarms
\* The event is a raw alarm, and normalisation is done.
RawAlarmParsed ==
    /\ "AlarmName" \in DOMAIN event
    /\ "Records" \notin DOMAIN event /\ "message" \notin DOMAIN event
    /\ npc # "lambda_handler"

StateIn(ev) == DictGet(ev, "NewStateValue", "UNKNOWN")

RawAlarmBody(ev) ==
    <<"State:", StateIn(ev), "\n", "Reason:">> \o DictGet(ev, "NewStateReason", <<>>)

RawAlarmSeverity(ev) == IF StateIn(ev) = "ALARM" THEN "critical" ELSE "success"

\* C21 as stated: a raw alarm is normalised to source cloudwatch, severity
\* critical for state ALARM and success otherwise, the title "Alarm: <name>"
\* and the message "State: <state>", a line break, "Reason: <reason>".
C21_AsStated ==
    RawAlarmParsed
        => /\ notification.source = "cloudwatch"
           /\ notification.severity = RawAlarmSeverity(event)
           /\ notification.title = <<"Alarm:">> \o event.AlarmName
           /\ notification.message = RawAlarmBody(event)

\* C21: a raw alarm is always normalised (never status 500), to source
\* cloudwatch, severity critical for state ALARM and success for every other
\* state or none, the title "CloudWatch Alarm: <name>" and the message
\* "State: <state>", a line break, "Reason: <reason>".
C21_RawAlarm ==
    RawAlarmParsed
        => /\ response.statusCode # 500
           /\ notification.source = "cloudwatch"
           /\ notification.severity = RawAlarmSeverity(event)
           /\ notification.title = <<"CloudWatch", "Alarm:">> \o event.AlarmName
           /\ notification.message = RawAlarmBody(event)

\* An alarm in state INSUFFICIENT_DATA was normalised to success.
C21_Witness ==
    /\ RawAlarmParsed /\ npc = "done"
    /\ StateIn(event) = "INSUFFICIENT_DATA"
    /\ notification.severity = "success"
    /\ notification.title = <<"CloudWatch", "Alarm:", "test-", "cpu-utilization-high">>

\* ------------------------------------------------------------------ hard failures
HandlerErrors(p) ==
    SelectSeq(effects[p], LAMBDA x : x.op = "send_notification"
                                     /\ x.text = "Error in remediation Lambda")

\* C22: an event with a record that cannot be parsed or whose processing
\* raises ends in the failure outcome: status 500 with the error's text,
\* exactly one error notification (the last call of the invocation), never
\* status 200; an exception that left process_alarm is always caught by the
\* handler; and an event without such a record ends in status 200 without
\* that notification.
C22_HardFailure ==
    \A p \in Invocations :
        /\ pc[p] = "raised" => ENABLED remediation_lambda_handler(p)
        /\ pc[p] = "returned" =>
               IF HasMalformed(EventRecords(p))
               THEN /\ local[p].statusCode = 500
                    /\ local[p].exception \in {"JSONDecodeError", "KeyError", "AttributeError"}
                    /\ local[p].body = <<"Error:", local[p].exception>>
                    /\ Len(HandlerErrors(p)) = 1
                    /\ effects[p][Len(effects[p])] = HandlerErrors(p)[1]
               ELSE /\ local[p].statusCode = 200
                    /\ local[p].body = <<"Remediation triggered successfully">>
                    /\ Len(HandlerErrors(p)) = 0

\* After a ScaleOut record, the record of a firing alarm without a name made
\* process_alarm raise: status 500 with the error's text, one error notification.
C22_Witness ==
    /\ pc[1] = "returned" /\ local[1].statusCode = 500
    /\ local[1].record = 2 /\ Unnamed(EventRecords(1)[2])
    /\ local[1].handlers = <<"handle_high_cpu">>
    /\ local[1].body = <<"Error:", "AttributeError">>
    /\ Len(HandlerErrors(1)) = 1

\* ------------------------------------------------------------------ ScaleOut, one invocation after the other
\* The invocations of ScaleOut that ran so far, and what the fleet held before
\* the first of them (what the first answered lookup read).
Runs(p) == Cardinality(Lookups(effects[p]))

Answered(e) == {i \in Lookups(e) : e[i].result = "ok"}

InitialCapacity(p) ==
    LET e == effects[p]
    IN  IF Answered(e) = {} THEN asg.DesiredCapacity
        ELSE e[CHOOSE i \in Answered(e) : \A j \in Answered(e) : i <= j].a

Adjusts(seg) == SelectSeq(seg, LAMBDA x : x.op = "set_desired_capacity")

NoneFailed(seg) == \A i \in DOMAIN seg : ~Failed(seg[i])

Unfailed(p) == {n \in 1..Runs(p) : NoneFailed(Segment(effects[p], n))}

\* Each invocation adjusts at most once, to one more than it read and never
\* above the maximum, and not at all when it read the maximum; what later
\* invocations read never decreases.
StepByStep(p) ==
    /\ \A n \in 1..Runs(p) :
           LET seg == Segment(effects[p], n)
           IN  /\ Len(Adjusts(seg)) <= 1
               /\ Len(Adjusts(seg)) = 1 =>
                      /\ seg[1].result = "ok"
                      /\ Adjusts(seg)[1].arg = seg[1].a + 1
                      /\ Adjusts(seg)[1].arg <= asg.MaxSize
               /\ seg[1].result = "ok" /\ seg[1].a = asg.MaxSize => Len(Adjusts(seg)) = 0
    /\ \A i, j \in Answered(effects[p]) :
           i < j => /\ effects[p][i].a <= effects[p][j].a
                    /\ effects[p][j].a <= asg.DesiredCapacity
                    /\ effects[p][j].a - effects[p][i].a
                           <= Cardinality({k \in Lookups(effects[p]) : i <= k /\ k < j})

\* C23 as stated: after n invocations one after the other the desired
\* capacity is min(c + n, m).
C23_AsStated ==
    \A p \in Invocations :
        pc[p] = "returned" =>
            asg.DesiredCapacity = Min(InitialCapacity(p) + Runs(p), asg.MaxSize)

\* C23: for ScaleOut invocations one after the other on a fleet with maximum m
\* that held c <= m: the desired capacity never decreases, each invocation
\* adjusts it at most once and by one, after n invocations it is
\* min(c + k, m), k the number of them in which no fleet call failed, and an
\* invocation that reads m issues no capacity-adjust call.
C23_Sequential ==
    \A p \in Invocations :
        /\ StepByStep(p)
        /\ pc[p] = "returned" =>
               asg.DesiredCapacity
                   = Min(InitialCapacity(p) + Cardinality(Unfailed(p)), asg.MaxSize)

\* From 1 of 3: four invocations, the second one's adjust call failed; the
\* fleet holds 3 and the fourth invocation issued no adjust call.
C23_Witness ==
    /\ pc[1] = "returned" /\ Runs(1) = 4
    /\ InitialCapacity(1) = 1 /\ asg.MaxSize = 3 /\ asg.DesiredCapacity = 3
    /\ Unfailed(1) = {1, 3, 4}
    /\ Len(Adjusts(Segment(effects[1], 2))) = 1
    /\ Len(Adjusts(Segment(effects[1], 4))) = 0

\* ------------------------------------------------------------------ CullUnhealthy: a failing call
CullOps == {"describe_instance_status", "terminate_instance_in_auto_scaling_group"}

CullFailures(e) == {i \in DOMAIN e : e[i].op \in CullOps /\ e[i].result = "raise"}

CullAdvisories(e) ==
    SelectSeq(e, LAMBDA x : x.op = "send_notification"
                            /\ x.text = "Error in unhealthy target remediation")

PositionOf(p, id) == CHOOSE k \in DOMAIN local[p].instances : local[p].instances[k] = id

StaysTerminated(id) ==
    \E k \in DOMAIN asg.Instances :
        asg.Instances[k].InstanceId = id /\ asg.Instances[k].LifecycleState = "Terminating"

\* C24: in CullUnhealthy a failing health-status or termination call is not
\* isolated: it is the last collaborator call of the action, followed only by
\* the one error advisory; no member after the failing one is checked or
\* terminated; the members terminated before it stay terminated; and without
\* such a failure there is no error advisory.
C24_FailureEndsLoop ==
    \A p \in Invocations :
        EventRecords(p) = <<Firing("unhealthy-targets")>> =>
            LET e == effects[p]
            IN  /\ Len(CullAdvisories(e)) = Cardinality(CullFailures(e))
                /\ Cardinality(CullFailures(e)) <= 1
                /\ \A i \in CullFailures(e) :
                       /\ Len(e) = i + 1
                       /\ e[i + 1] = CullAdvisories(e)[1]
                       /\ pc[p] \in {"completed", "returned"}
                       /\ \A j \in DOMAIN e :
                              e[j].op \in CullOps
                                  => PositionOf(p, e[j].arg) <= PositionOf(p, e[i].arg)
                       /\ \A j \in 1..(i - 1) :
                              e[j].op = "terminate_instance_in_auto_scaling_group"
                                  => e[j].result = "ok" /\ StaysTerminated(e[j].arg)

\* Three members in service: the first was terminated, the status call for
\* the second failed, the third was never checked; one error advisory.
C24_Witness ==
    /\ pc[1] = "returned" /\ local[1].instances = <<1, 2, 3>>
    /\ EventRecords(1) = <<Firing("unhealthy-targets")>>
    /\ TerminatedBy(1, 1) /\ StaysTerminated(1)
    /\ \E i \in CullFailures(effects[1]) :
           effects[1][i].op = "describe_instance_status" /\ effects[1][i].arg = 2
    /\ \A j \in DOMAIN effects[1] : effects[1][j].arg # 3
    /\ NotHealthy(3)
    /\ Len(CullAdvisories(effects[1])) = 1

\* ------------------------------------------------------------------ ScaleOut: report after the call
\* C26: in an execution of ScaleOut the "Scaled up" notification comes right
\* after a capacity-adjust call that returned; a capacity-adjust call that
\* raised is followed by exactly one notification, the error advisory, and
\* by no "Scaled up" notification; and an execution sends at most one
\* notification and issues at most one capacity-adjust call.
C26_ReportAfterAdjust ==
    \A p \in Invocations :
        LET e == effects[p]
        IN  /\ Len(Notifications(p)) <= 1
            /\ Len(CallsOf(p, "set_desired_capacity")) <= 1
            /\ \A i \in DOMAIN e :
                   /\ (e[i].op = "send_notification" /\ e[i].text = "Scaled up")
                          => /\ i > 1
                             /\ e[i - 1].op = "set_desired_capacity"
                             /\ e[i - 1].result = "ok"
                   /\ (e[i].op = "set_desired_capacity" /\ e[i].result = "raise")
                          => /\ Len(Notifications(p)) = 1
                             /\ Notifications(p)[1].text = "Error in high CPU remediation"
                             /\ e[i + 1] = Notifications(p)[1]

\* One execution's capacity-adjust call raised and it sent the error
\* advisory; the other one's returned and it sent the report.
C26_Witness ==
    /\ \A p \in Invocations : pc[p] = "completed" /\ Len(effects[p]) = 3
    /\ effects[1][2].op = "set_desired_capacity" /\ effects[1][2].result = "raise"
    /\ Notifications(1)[1].text = "Error in high CPU remediation"
    /\ effects[2][2].op = "set_desired_capacity" /\ effects[2][2].result = "ok"
    /\ Notifications(2)[1].text = "Scaled up"

\* ------------------------------------------------------------------ records in order
\* The records the handler cannot parse or process.
Failing(records) ==
    {k \in DOMAIN records : IsSns(records[k]) /\ (~Loadable(records[k]) \/ Unnamed(records[k]))}

FirstFailing(records) == CHOOSE k \in Failing(records) : \A j \in Failing(records) : k <= j

\* What the actions did to the fleet is still there.
NotUndone(p) ==
    \A i \in DOMAIN effects[p] :
        /\ (effects[p][i].op = "set_desired_capacity" /\ effects[p][i].result = "ok")
               => asg.DesiredCapacity = effects[p][i].arg
        /\ (effects[p][i].op = "terminate_instance_in_auto_scaling_group"
            /\ effects[p][i].result = "ok") => StaysTerminated(effects[p][i].arg)

IsPrefix(s, t) == Len(s) <= Len(t) /\ s = SubSeq(t, 1, Len(s))

\* C25: the handler takes the pub/sub records of an event in list order, and
\* only those: the actions it called are, in order, those of the records
\* before the first record that fails (of all records when none fails); when
\* record k fails the handler returns status 500 with record k the last one
\* it took, the calls issued for the records before k stay in the log and
\* their effect on the fleet is still there, and the error notification is the
\* last entry; an event without a pub/sub record ends in status 200 with no
\* call issued at all.
C25_RecordsInOrder ==
    \A p \in Invocations :
        LET records == EventRecords(p)
            bad == Failing(records)
            taken == IF bad = {} THEN records
                     ELSE SubSeq(records, 1, FirstFailing(records) - 1)
        IN  /\ IsPrefix(local[p].handlers, HandlersFor(taken))
            /\ NotUndone(p)
            /\ local[p].record > 0 => IsSns(records[local[p].record])
            /\ pc[p] = "returned" =>
                   /\ local[p].handlers = HandlersFor(taken)
                   /\ Cardinality(Lookups(effects[p])) = Len(HandlersFor(taken))
                   /\ Len(HandlerErrors(p)) = IF bad = {} THEN 0 ELSE 1
                   /\ IF bad = {}
                      THEN local[p].statusCode = 200
                      ELSE /\ local[p].statusCode = 500
                           /\ local[p].record = FirstFailing(records)
                           /\ effects[p][Len(effects[p])] = HandlerErrors(p)[1]
                   /\ (\A k \in DOMAIN records : ~IsSns(records[k]))
                          => effects[p] = <<>> /\ local[p].statusCode = 200

\* A record that is no JSON before a firing cpu-utilization-high record: the
\* handler returned 500, the second record was never taken, no action ran.
C25_Witness ==
    /\ pc[1] = "returned" /\ local[1].statusCode = 500
    /\ EventRecords(1) = <<SnsRecord(Malformed), Firing("cpu-utilization-high")>>
    /\ local[1].record = 1 /\ local[1].handlers = <<>>
    /\ Len(effects[1]) = 1
    /\ asg.found /\ asg.DesiredCapacity = 1

\* ------------------------------------------------------------------ envelopes
SnsRecordsOf(ev) == SelectSeq(ev.Records, IsSns)

\* The record holds the JSON text of an object whose Message, if any, is a text.
Parses(record) ==
    /\ Loadable(record)
    /\ IsText(DictGet(record.Sns.Message.object, "Message", <<>>))

FromSns(object) ==
    [title |-> DictGet(object, "Subject", <<"SNS", "Notification">>),
     message |-> DictGet(object, "Message", <<>>),
     severity |-> determine_severity_from_message(DictGet(object, "Message", <<>>)),
     source |-> "sns",
     metadata |-> object]

\* C27: an event with a Records key is normalised to one notification: that
\* of its last pub/sub record (title, message, severity and metadata), earlier
\* pub/sub records being overwritten and records of other sources ignored;
\* the all-defaults notification (empty title and message, info, source
\* lambda) when it holds no pub/sub record, whatever other keys the event
\* carries; and to none at all, with status 500, when one of its pub/sub
\* records cannot be parsed.
C27_LastRecordWins ==
    ("Records" \in DOMAIN event /\ npc # "lambda_handler") =>
        LET sns == SnsRecordsOf(event)
        IN  IF \A k \in DOMAIN sns : Parses(sns[k])
            THEN /\ response.statusCode # 500
                 /\ notification = IF sns = <<>> THEN DefaultNotification
                                   ELSE FromSns(sns[Len(sns)].Sns.Message.object)
            ELSE /\ npc = "done" /\ response.statusCode = 500
                 /\ notification = NoNotification /\ requests = NoRequests

\* Two pub/sub records: the notification is the second one's, title included.
C27_Witness ==
    /\ npc = "done" /\ response.statusCode = 200
    /\ "Records" \in DOMAIN event /\ Len(SnsRecordsOf(event)) = 2
    /\ event.Records[1] = SnsRecord(JsonObject([Message |-> <<"Service", "degraded">>]))
    /\ notification.title = <<"Subject">>
    /\ notification.message = <<"error">>
    /\ notification.severity = "error"

====
